---- MODULE Spec2Model ----
(***************************************************************************)
(* A model of the KMSAN runtime (mm/kmsan/core.c, shadow.c, hooks.c).      *)
(*                                                                         *)
(* Data memory is the linear mapping, NumPages pages of PAGE_SIZE bytes at *)
(* addresses 0 .. NumPages*PAGE_SIZE-1; addresses past it are not valid.   *)
(* The page size is scaled down to two origin granules, which keeps every  *)
(* relation the code depends on (PAGE_SIZE is a multiple of                *)
(* KMSAN_ORIGIN_SIZE, an access may cross a page, a granule never does).   *)
(* Shadow pages and origin pages are frames 1..NumMeta of two metadata     *)
(* pools; frame f lies at location (f+1)*PAGE_SIZE, NULL is 0.             *)
(* A runtime call is one atomic step: the handlers thread a record m       *)
(* (the metadata stores, the stack depot, the re-entrancy counter and what *)
(* the call did) through the internal functions, in the order of the code. *)
(***************************************************************************)
EXTENDS Integers, Sequences, FiniteSets, TLC

\* ------------------------------------------------------------------ bounds
NumPages == 2
NumMeta == 2
NumStacks == 2
MaxChain == 10
MaxLen == 10
MaxOps == 2
NumVmPages == 3
MaxIoOps == 3
NumCpus == 2

\* ------------------------------------------------------- program constants
KMSAN_ORIGIN_SIZE == 4
PAGE_SIZE == 2 * KMSAN_ORIGIN_SIZE
MAX_CHAIN_DEPTH == 7
STACK_DEPOT_EXTRA_BITS == 5
KMSAN_CHAIN_MAGIC_ORIGIN == 0 - 1

NULL == 0
NoPage == 0 - 1

VARIABLES
  kmsan_ready,        \* bool kmsan_ready
  kmsan_in_runtime,   \* the calling context's re-entrancy counter
  page_shadow,        \* page -> shadow frame (0: none)
  page_origin,        \* page -> origin frame (0: none)
  shadow,             \* shadow location -> byte
  origin,             \* origin location (granule aligned) -> handle
  depot,              \* the stack depot: sequence of stored entries
  reports,            \* the report events of the last call
  bug,                \* a BUG()/BUG_ON() was reached: the kernel stopped
  oob,                \* a metadata access left the metadata pages
  unguarded,          \* the last call touched metadata outside the runtime
  kmsan_skipped_origins, \* static counter of kmsan_internal_chain_origin
  call,               \* the last call, with its arguments
  prev,               \* the call before it
  nops,               \* number of calls made
  vmap,               \* vmalloc zone: metadata page tables, allocated pages
  lookup              \* CPU -> its kmsan_get_metadata call in flight

vars == <<kmsan_ready, kmsan_in_runtime, page_shadow, page_origin, shadow,
          origin, depot, reports, bug, oob, unguarded, kmsan_skipped_origins,
          call, prev, nops, vmap, lookup>>

Pages == 0 .. (NumPages - 1)

\* the pages of the vmalloc zone an ioremap may map
VmPages == 0 .. (NumVmPages - 1)

\* no metadata page mapped, none allocated, nothing ioremapped
VmapInit ==
  [shadow |-> [v \in VmPages |-> NoPage],
   origin |-> [v \in VmPages |-> NoPage],
   allocated |-> {},
   count |-> 0,
   ranges |-> {}]

Cpus == 0 .. (NumCpus - 1)

\* no CPU is resolving an address
LookupInit == [c \in Cpus |-> [pc |-> "idle"]]

Frames == 1 .. NumMeta
Stacks == 1 .. NumStacks
LinearEnd == NumPages * PAGE_SIZE
Addrs == 0 .. (LinearEnd + PAGE_SIZE - 1)
Lens == 0 .. MaxLen

MetaLocs == (2 * PAGE_SIZE) .. ((NumMeta + 2) * PAGE_SIZE - 1)
OriginLocs == {l \in MetaLocs : l % KMSAN_ORIGIN_SIZE = 0}

Min(a, b) == IF a < b THEN a ELSE b

ALIGN_DOWN(x, a) == x - (x % a)

ALIGN(x, a) == ALIGN_DOWN(x + a - 1, a)

IS_ALIGNED(x, a) == x % a = 0

\* ----------------------------------------------------------- shadow.c
page_address(frame) == (frame + 1) * PAGE_SIZE

shadow_ptr_for(page) == page_address(page_shadow[page])

origin_ptr_for(page) == page_address(page_origin[page])

page_has_metadata(page) == page_shadow[page] # 0 /\ page_origin[page] # 0

kmsan_virt_addr_valid(addr) == addr >= 0 /\ addr < LinearEnd

virt_to_page_or_null(vaddr) ==
  IF kmsan_virt_addr_valid(vaddr) THEN vaddr \div PAGE_SIZE ELSE NoPage

\* the origin address not rounded down to its granule
get_metadata_unaligned(address, is_origin) ==
  LET page == virt_to_page_or_null(address)
  IN  IF page = NoPage THEN NULL
      ELSE IF ~page_has_metadata(page) THEN NULL
      ELSE (IF is_origin THEN origin_ptr_for(page) ELSE shadow_ptr_for(page))
           + (address % PAGE_SIZE)

\* an origin lookup that resolves aligned addresses only
get_metadata_aligned_only(address, is_origin) ==
  LET page == virt_to_page_or_null(address)
  IN  IF is_origin /\ ~IS_ALIGNED(address, KMSAN_ORIGIN_SIZE) THEN NULL
      ELSE IF page = NoPage THEN NULL
      ELSE IF ~page_has_metadata(page) THEN NULL
      ELSE (IF is_origin THEN origin_ptr_for(page) ELSE shadow_ptr_for(page))
           + (address % PAGE_SIZE)

kmsan_get_metadata(address, is_origin) ==
  LET addr == IF is_origin /\ ~IS_ALIGNED(address, KMSAN_ORIGIN_SIZE)
              THEN address - (address % KMSAN_ORIGIN_SIZE)
              ELSE address
      page == virt_to_page_or_null(addr)
  IN  IF page = NoPage THEN NULL
      ELSE IF ~page_has_metadata(page) THEN NULL
      ELSE (IF is_origin THEN origin_ptr_for(page) ELSE shadow_ptr_for(page))
           + (addr % PAGE_SIZE)

\* ------------------------------------------------------------- core.c
RECURSIVE contiguous_loop(_, _, _, _, _, _)
contiguous_loop(addr, size, next_addr, cur_shadow, cur_origin, all_untracked) ==
  IF ~(next_addr < addr + size) THEN TRUE
  ELSE LET next_shadow == kmsan_get_metadata(next_addr, FALSE)
           next_origin == kmsan_get_metadata(next_addr, TRUE)
       IN  IF all_untracked
           THEN IF next_shadow # NULL \/ next_origin # NULL THEN FALSE
                ELSE contiguous_loop(addr, size, next_addr + PAGE_SIZE,
                                     next_shadow, next_origin, all_untracked)
           ELSE IF cur_shadow = next_shadow - PAGE_SIZE
                   /\ cur_origin = next_origin - PAGE_SIZE
                THEN contiguous_loop(addr, size, next_addr + PAGE_SIZE,
                                     next_shadow, next_origin, all_untracked)
                ELSE FALSE

kmsan_metadata_is_contiguous(addr, size) ==
  IF size = 0 THEN TRUE
  ELSE IF ALIGN_DOWN(addr + size - 1, PAGE_SIZE) = ALIGN_DOWN(addr, PAGE_SIZE)
  THEN TRUE
  ELSE LET cur_shadow == kmsan_get_metadata(addr, FALSE)
           all_untracked == cur_shadow = NULL
           cur_origin == kmsan_get_metadata(addr, TRUE)
       IN  IF all_untracked /\ cur_origin # NULL THEN FALSE
           ELSE contiguous_loop(addr, size, addr + PAGE_SIZE, cur_shadow,
                                cur_origin, all_untracked)

\* ------------------------------------------- the state a call works on
Mach == [sh |-> shadow, org |-> origin, depot |-> depot,
         rt |-> kmsan_in_runtime, skipped |-> kmsan_skipped_origins,
         bug |-> FALSE, oob |-> FALSE, ung |-> FALSE, reps |-> <<>>]

BUG(m) == [m EXCEPT !.bug = TRUE]

kmsan_enter_runtime(m) == [m EXCEPT !.rt = @ + 1]

kmsan_leave_runtime(m) == [m EXCEPT !.rt = @ - 1]

in_runtime(m) == m.rt > 0

\* __memset() of n shadow bytes at location s
memset_shadow(m, s, c, n) ==
  [m EXCEPT !.sh = [l \in DOMAIN m.sh |->
                      IF l >= s /\ l < s + n THEN c % 256 ELSE m.sh[l]],
            !.oob = @ \/ (\E l \in s .. (s + n - 1) : l \notin MetaLocs),
            !.ung = @ \/ (n > 0 /\ m.rt = 0)]

\* origin_start[i] = handle for i < count
fill_origin(m, origin_start, count, handle) ==
  LET written == {origin_start + KMSAN_ORIGIN_SIZE * i : i \in 0 .. (count - 1)}
  IN  [m EXCEPT !.org = [l \in DOMAIN m.org |->
                           IF l \in written THEN handle ELSE m.org[l]],
                !.oob = @ \/ (\E l \in written : l \notin OriginLocs),
                !.ung = @ \/ (count > 0 /\ m.rt = 0)]

\* ------------------------------------------------------- stack depot
ExtraBitsMod == 2 ^ STACK_DEPOT_EXTRA_BITS

depot_index(dp, entries) ==
  IF \E i \in 1 .. Len(dp) : dp[i] = entries
  THEN CHOOSE i \in 1 .. Len(dp) : dp[i] = entries
  ELSE Len(dp) + 1

stack_depot_save_extra(m, entries, extra_bits) ==
  LET idx == depot_index(m.depot, entries)
  IN  [m |-> [m EXCEPT !.depot = IF idx > Len(@) THEN Append(@, entries) ELSE @,
                       !.ung = @ \/ (m.rt = 0)],
       h |-> idx * ExtraBitsMod + (extra_bits % ExtraBitsMod)]

stack_depot_get_extra_bits(handle) == handle % ExtraBitsMod

kmsan_extra_bits(depth, uaf) == depth * 2 + (IF uaf THEN 1 ELSE 0)

kmsan_depth_from_eb(extra_bits) == extra_bits \div 2

kmsan_uaf_from_eb(extra_bits) == extra_bits % 2 = 1

\* stk is the stack stack_trace_save() finds: the call site of the hook
kmsan_save_stack_with_flags(m, stk, reserved) ==
  stack_depot_save_extra(m, <<stk>>, reserved)

\* the depth test off by one: a chain may grow one hop too many
chain_origin_past_max(m, stk, id) ==
  IF id = 0 THEN [m |-> m, h |-> id]
  ELSE LET extra_bits == stack_depot_get_extra_bits(id)
           depth == kmsan_depth_from_eb(extra_bits)
           uaf == kmsan_uaf_from_eb(extra_bits)
       IN  IF depth > MAX_CHAIN_DEPTH
           THEN [m |-> [m EXCEPT !.skipped = @ + 1], h |-> id]
           ELSE LET eb == kmsan_extra_bits(depth + 1, uaf)
                    s1 == kmsan_save_stack_with_flags(m, stk, eb)
                IN  stack_depot_save_extra(
                      s1.m, <<KMSAN_CHAIN_MAGIC_ORIGIN, s1.h, id>>, eb)

\* a chain that forgets the use-after-free flag of its argument
chain_origin_drops_uaf(m, stk, id) ==
  IF id = 0 THEN [m |-> m, h |-> id]
  ELSE LET extra_bits == stack_depot_get_extra_bits(id)
           depth == kmsan_depth_from_eb(extra_bits)
       IN  IF depth >= MAX_CHAIN_DEPTH
           THEN [m |-> [m EXCEPT !.skipped = @ + 1], h |-> id]
           ELSE LET eb == kmsan_extra_bits(depth + 1, FALSE)
                    s1 == kmsan_save_stack_with_flags(m, stk, eb)
                IN  stack_depot_save_extra(
                      s1.m, <<KMSAN_CHAIN_MAGIC_ORIGIN, s1.h, id>>, eb)

kmsan_internal_chain_origin(m, stk, id) ==
  IF id = 0 THEN [m |-> m, h |-> id]
  ELSE LET extra_bits == stack_depot_get_extra_bits(id)
           depth == kmsan_depth_from_eb(extra_bits)
           uaf == kmsan_uaf_from_eb(extra_bits)
       IN  IF depth >= MAX_CHAIN_DEPTH
           THEN [m |-> [m EXCEPT !.skipped = @ + 1], h |-> id]
           ELSE LET eb == kmsan_extra_bits(depth + 1, uaf)
                    s1 == kmsan_save_stack_with_flags(m, stk, eb)
                IN  stack_depot_save_extra(
                      s1.m, <<KMSAN_CHAIN_MAGIC_ORIGIN, s1.h, id>>, eb)

\* kmsan_internal_set_shadow_origin that never looks at `checked`
set_shadow_origin_unchecked(m, addr, size, b, handle, checked) ==
  IF m.bug THEN m
  ELSE IF ~kmsan_metadata_is_contiguous(addr, size) THEN BUG(m)
  ELSE LET shadow_start == kmsan_get_metadata(addr, FALSE)
       IN  IF shadow_start = NULL THEN m
           ELSE LET m1 == memset_shadow(m, shadow_start, b, size)
                    pad == addr % KMSAN_ORIGIN_SIZE
                    address == addr - pad
                    size1 == ALIGN(size + pad, KMSAN_ORIGIN_SIZE)
                    origin_start == kmsan_get_metadata(address, TRUE)
                IN  IF origin_start = NULL THEN BUG(m1)
                    ELSE fill_origin(m1, origin_start,
                                     size1 \div KMSAN_ORIGIN_SIZE, handle)

kmsan_internal_set_shadow_origin(m, addr, size, b, handle, checked) ==
  IF m.bug THEN m
  ELSE IF ~kmsan_metadata_is_contiguous(addr, size) THEN BUG(m)
  ELSE LET shadow_start == kmsan_get_metadata(addr, FALSE)
       IN  IF shadow_start = NULL
           THEN IF checked THEN BUG(m) ELSE m
           ELSE LET m1 == memset_shadow(m, shadow_start, b, size)
                    pad == addr % KMSAN_ORIGIN_SIZE
                    address == addr - pad
                    size1 == ALIGN(size + pad, KMSAN_ORIGIN_SIZE)
                    origin_start == kmsan_get_metadata(address, TRUE)
                IN  IF origin_start = NULL THEN BUG(m1)
                    ELSE fill_origin(m1, origin_start,
                                     size1 \div KMSAN_ORIGIN_SIZE, handle)

kmsan_internal_poison_memory(m, stk, address, size, checked, free) ==
  IF m.bug THEN m
  ELSE LET extra_bits == kmsan_extra_bits(0, free)
           s == kmsan_save_stack_with_flags(m, stk, extra_bits)
       IN  kmsan_internal_set_shadow_origin(s.m, address, size, 0 - 1, s.h,
                                            checked)

kmsan_internal_unpoison_memory(m, address, size, checked) ==
  kmsan_internal_set_shadow_origin(m, address, size, 0, 0, checked)

\* ------------------------------------------------------------ reports
kmsan_report(m, handle, addr, size, off_first, off_last, user_addr, reason) ==
  [m EXCEPT !.reps = Append(@, [origin |-> handle, address |-> addr,
                                size |-> size, off_first |-> off_first,
                                off_last |-> off_last, user_addr |-> user_addr,
                                reason |-> reason, rt |-> m.rt])]

\* a report whose last offset is one too far
report_run_past_end(m, c, cur_origin, cur_off_start, off_last) ==
  IF cur_origin # 0
  THEN kmsan_leave_runtime(
         kmsan_report(kmsan_enter_runtime(m), cur_origin, c.addr, c.size,
                      cur_off_start, off_last + 1, c.user_addr, c.reason))
  ELSE m

\* if (cur_origin) { enter; kmsan_report(...); leave; }
report_run(m, c, cur_origin, cur_off_start, off_last) ==
  IF cur_origin # 0
  THEN kmsan_leave_runtime(
         kmsan_report(kmsan_enter_runtime(m), cur_origin, c.addr, c.size,
                      cur_off_start, off_last, c.user_addr, c.reason))
  ELSE m

\* for (i = 0; i < chunk_size; i++) of kmsan_internal_check_memory
RECURSIVE check_bytes(_, _, _, _, _, _)
check_bytes(st, c, shadow_p, pos, i, chunk_size) ==
  IF i >= chunk_size \/ st.m.bug THEN st
  ELSE IF st.m.sh[shadow_p + i] = 0
  THEN check_bytes([m |-> report_run(st.m, c, st.cur_origin,
                                     st.cur_off_start, pos + i - 1),
                    cur_origin |-> 0, cur_off_start |-> 0 - 1],
                   c, shadow_p, pos, i + 1, chunk_size)
  ELSE LET origin_p == kmsan_get_metadata(c.addr + pos + i, TRUE)
       IN  IF origin_p = NULL THEN [st EXCEPT !.m = BUG(st.m)]
           ELSE LET new_origin == st.m.org[origin_p]
                IN  IF st.cur_origin # new_origin
                    THEN check_bytes(
                           [m |-> report_run(st.m, c, st.cur_origin,
                                             st.cur_off_start, pos + i - 1),
                            cur_origin |-> new_origin,
                            cur_off_start |-> pos + i],
                           c, shadow_p, pos, i + 1, chunk_size)
                    ELSE check_bytes(st, c, shadow_p, pos, i + 1, chunk_size)

\* while (pos < size) of kmsan_internal_check_memory
RECURSIVE check_chunks(_, _, _)
check_chunks(st, c, pos) ==
  IF ~(pos < c.size) \/ st.m.bug THEN st
  ELSE LET chunk_size == Min(c.size - pos,
                             PAGE_SIZE - ((c.addr + pos) % PAGE_SIZE))
           shadow_p == kmsan_get_metadata(c.addr + pos, FALSE)
       IN  IF shadow_p = NULL
           THEN check_chunks([m |-> report_run(st.m, c, st.cur_origin,
                                               st.cur_off_start, pos - 1),
                              cur_origin |-> 0, cur_off_start |-> 0 - 1],
                             c, pos + chunk_size)
           ELSE check_chunks(check_bytes(st, c, shadow_p, pos, 0, chunk_size),
                             c, pos + chunk_size)

kmsan_internal_check_memory(m, addr, size, user_addr, reason) ==
  IF m.bug \/ size = 0 THEN m
  ELSE IF ~kmsan_metadata_is_contiguous(addr, size) THEN BUG(m)
  ELSE LET c == [addr |-> addr, size |-> size, user_addr |-> user_addr,
                 reason |-> reason]
           st == check_chunks([m |-> m, cur_origin |-> 0,
                               cur_off_start |-> 0 - 1], c, 0)
       IN  IF st.m.bug THEN st.m
           ELSE report_run(st.m, c, st.cur_origin, st.cur_off_start, size - 1)

\* --------------------------------------------- kmsan_memmove_metadata
\* __memmove() of n shadow bytes from location s to location d
memmove_shadow(m, d, s, n) ==
  [m EXCEPT !.sh = [l \in DOMAIN m.sh |->
                      IF l >= d /\ l < d + n /\ (l - d + s) \in DOMAIN m.sh
                      THEN m.sh[l - d + s] ELSE m.sh[l]],
            !.oob = @ \/ (\E k \in 0 .. (n - 1) :
                            (d + k) \notin MetaLocs \/ (s + k) \notin MetaLocs),
            !.ung = @ \/ (n > 0 /\ m.rt = 0)]

\* a u32 read from shadow memory, as its four bytes in memory order
\* (little endian: byte 1 is the least significant)
shadow_word(m, p) ==
  [j \in 1 .. KMSAN_ORIGIN_SIZE |->
     IF (p + j - 1) \in DOMAIN m.sh THEN m.sh[p + j - 1] ELSE 0]

\* (u32)(w << 8*k)
shl_bytes(w, k) ==
  [j \in 1 .. KMSAN_ORIGIN_SIZE |-> IF j - k >= 1 THEN w[j - k] ELSE 0]

\* w >> 8*k
shr_bytes(w, k) ==
  [j \in 1 .. KMSAN_ORIGIN_SIZE |->
     IF j + k <= KMSAN_ORIGIN_SIZE THEN w[j + k] ELSE 0]

word_nonzero(w) == \E j \in 1 .. KMSAN_ORIGIN_SIZE : w[j] # 0

origin_read(m, p) == IF p \in DOMAIN m.org THEN m.org[p] ELSE 0

\* the slot count with the end of the range rounded down
slots_rounded_down(addr, n) ==
  (ALIGN_DOWN(addr + n, KMSAN_ORIGIN_SIZE)
     - ALIGN_DOWN(addr, KMSAN_ORIGIN_SIZE)) \div KMSAN_ORIGIN_SIZE

slots_of(addr, n) ==
  (ALIGN(addr + n, KMSAN_ORIGIN_SIZE) - ALIGN_DOWN(addr, KMSAN_ORIGIN_SIZE))
    \div KMSAN_ORIGIN_SIZE

\* the shadow word of slot i after both masks (core.c:136-155)
masked_shadow(m, align_shadow_src, src, n, src_slots, i) ==
  LET w0 == shadow_word(m, align_shadow_src + KMSAN_ORIGIN_SIZE * i)
      w1 == IF i = 0
            THEN LET skip == src % KMSAN_ORIGIN_SIZE
                 IN  shr_bytes(shl_bytes(w0, skip), skip)
            ELSE w0
      w2 == IF i = src_slots - 1
            THEN LET skip == (src + n) % KMSAN_ORIGIN_SIZE
                 IN  shl_bytes(shr_bytes(w1, skip), skip)
            ELSE w1
  IN  w2

\* for (step = 0; step < min(src_slots, dst_slots); step++, i += iter)
RECURSIVE memmove_origins(_, _, _, _)
memmove_origins(st, c, step, i) ==
  IF ~(step < Min(c.src_slots, c.dst_slots)) \/ st.m.bug THEN st
  ELSE IF i < 0 THEN [st EXCEPT !.m = BUG(st.m)]
  ELSE LET w == masked_shadow(st.m, c.align_shadow_src, c.src, c.n,
                              c.src_slots, i)
           src_o == origin_read(st.m, c.origin_src + KMSAN_ORIGIN_SIZE * i)
           chained == src_o # 0 /\ src_o # st.old_origin /\ word_nonzero(w)
           ch == kmsan_internal_chain_origin(st.m, c.stk, src_o)
           m1 == IF chained THEN ch.m ELSE st.m
           old1 == IF chained THEN src_o ELSE st.old_origin
           new1 == IF chained
                   THEN (IF ch.h # 0 THEN ch.h ELSE src_o)
                   ELSE st.new_origin
           m2 == fill_origin(m1, c.origin_dst + KMSAN_ORIGIN_SIZE * i, 1,
                             IF word_nonzero(w) THEN new1 ELSE 0)
       IN  memmove_origins([m |-> m2, old_origin |-> old1,
                            new_origin |-> new1],
                           c, step + 1, i + c.iter)

memmove_metadata(m, stk, dst, src, n) ==
  LET shadow_dst == kmsan_get_metadata(dst, FALSE)
      shadow_src == kmsan_get_metadata(src, FALSE)
  IN  IF m.bug \/ shadow_dst = NULL THEN m
      ELSE IF ~kmsan_metadata_is_contiguous(dst, n) THEN BUG(m)
      ELSE IF shadow_src = NULL THEN memset_shadow(m, shadow_dst, 0, n)
      ELSE IF ~kmsan_metadata_is_contiguous(src, n) THEN BUG(m)
      ELSE LET m1 == memmove_shadow(m, shadow_dst, shadow_src, n)
               origin_dst == kmsan_get_metadata(dst, TRUE)
               origin_src == kmsan_get_metadata(src, TRUE)
               src_slots == slots_of(src, n)
               dst_slots == slots_of(dst, n)
               backwards == dst > src
               c == [stk |-> stk, src |-> src, n |-> n,
                     src_slots |-> src_slots, dst_slots |-> dst_slots,
                     origin_src |-> origin_src, origin_dst |-> origin_dst,
                     align_shadow_src |->
                       ALIGN_DOWN(shadow_src, KMSAN_ORIGIN_SIZE),
                     iter |-> IF backwards THEN 0 - 1 ELSE 1]
           IN  IF origin_dst = NULL \/ origin_src = NULL THEN BUG(m1)
               ELSE IF src_slots = 0 \/ dst_slots = 0 THEN BUG(m1)
               ELSE IF src_slots < 1 \/ dst_slots < 1 THEN BUG(m1)
               ELSE IF src_slots - dst_slots > 1 \/ dst_slots - src_slots < 0 - 1
               THEN BUG(m1)
               ELSE memmove_origins(
                      [m |-> m1, old_origin |-> 0, new_origin |-> 0], c, 0,
                      IF backwards THEN Min(src_slots, dst_slots) - 1 ELSE 0).m

\* ------------------------------------------------------------ hooks.c
TASK_SIZE == 0

data_address(page) == page * PAGE_SIZE

kmsan_poison_memory(m, stk, address, size) ==
  IF ~kmsan_ready \/ in_runtime(m) THEN m
  ELSE kmsan_leave_runtime(
         kmsan_internal_poison_memory(kmsan_enter_runtime(m), stk, address,
                                      size, FALSE, FALSE))

kmsan_unpoison_memory(m, address, size) ==
  IF ~kmsan_ready \/ in_runtime(m) THEN m
  ELSE kmsan_leave_runtime(
         kmsan_internal_unpoison_memory(kmsan_enter_runtime(m), address, size,
                                        FALSE))

kmsan_check_memory(m, addr, size) ==
  kmsan_internal_check_memory(m, addr, size, 0, "REASON_ANY")

\* s = [ctor, rcu, poison, object_size]
kmsan_slab_alloc(m, stk, s, object, zero) ==
  IF ~kmsan_ready \/ in_runtime(m) THEN m
  ELSE IF s.ctor \/ s.rcu THEN m
  ELSE LET m1 == kmsan_enter_runtime(m)
       IN  kmsan_leave_runtime(
             IF zero
             THEN kmsan_internal_unpoison_memory(m1, object, s.object_size,
                                                 TRUE)
             ELSE kmsan_internal_poison_memory(m1, stk, object, s.object_size,
                                               TRUE, FALSE))

\* kmsan_slab_free without the use-after-free flag
slab_free_no_uaf(m, stk, s, object) ==
  IF ~kmsan_ready \/ in_runtime(m) THEN m
  ELSE IF s.rcu \/ s.poison THEN m
  ELSE IF s.ctor THEN m
  ELSE kmsan_leave_runtime(
         kmsan_internal_poison_memory(kmsan_enter_runtime(m), stk, object,
                                      s.object_size, TRUE, FALSE))

kmsan_slab_free(m, stk, s, object) ==
  IF ~kmsan_ready \/ in_runtime(m) THEN m
  ELSE IF s.rcu \/ s.poison THEN m
  ELSE IF s.ctor THEN m
  ELSE kmsan_leave_runtime(
         kmsan_internal_poison_memory(kmsan_enter_runtime(m), stk, object,
                                      s.object_size, TRUE, TRUE))

kmsan_kmalloc_large(m, stk, ptr, size, zero) ==
  IF ~kmsan_ready \/ in_runtime(m) THEN m
  ELSE LET m1 == kmsan_enter_runtime(m)
       IN  kmsan_leave_runtime(
             IF zero
             THEN kmsan_internal_unpoison_memory(m1, ptr, size, TRUE)
             ELSE kmsan_internal_poison_memory(m1, stk, ptr, size, TRUE,
                                               FALSE))

\* kmsan_kfree_large() returning without kmsan_leave_runtime()
kfree_large_no_leave(m, stk, ptr, order) ==
  IF ~kmsan_ready \/ in_runtime(m) THEN m
  ELSE kmsan_internal_poison_memory(kmsan_enter_runtime(m), stk, ptr,
                                    PAGE_SIZE * (2 ^ order), TRUE, TRUE)

\* ptr is the address of a head page of compound order `order`
kmsan_kfree_large(m, stk, ptr, order) ==
  IF ~kmsan_ready \/ in_runtime(m) THEN m
  ELSE kmsan_leave_runtime(
         kmsan_internal_poison_memory(kmsan_enter_runtime(m), stk, ptr,
                                      PAGE_SIZE * (2 ^ order), TRUE, TRUE))

kmsan_copy_to_user(m, stk, to, from, to_copy, left) ==
  IF ~kmsan_ready \/ in_runtime(m) THEN m
  ELSE IF to_copy = 0 THEN m
  ELSE IF to_copy <= left THEN m
  ELSE IF to < TASK_SIZE
  THEN kmsan_internal_check_memory(m, from, to_copy - left, to,
                                   "REASON_COPY_TO_USER")
  ELSE memmove_metadata(m, stk, to, from, to_copy - left)

kmsan_handle_urb(m, transfer_buffer, transfer_buffer_length, is_out) ==
  IF is_out
  THEN kmsan_internal_check_memory(m, transfer_buffer,
                                   transfer_buffer_length, 0,
                                   "REASON_SUBMIT_URB")
  ELSE kmsan_internal_unpoison_memory(m, transfer_buffer,
                                      transfer_buffer_length, FALSE)

\* kmsan_handle_dma_page that unpoisons a bidirectional chunk before it
\* checks it
dma_page_unpoison_first(m, addr, size, dir) ==
  CASE dir = "DMA_BIDIRECTIONAL" ->
         kmsan_internal_check_memory(
           kmsan_internal_unpoison_memory(m, addr, size, FALSE),
           addr, size, 0, "REASON_ANY")
    [] dir = "DMA_TO_DEVICE" ->
         kmsan_internal_check_memory(m, addr, size, 0, "REASON_ANY")
    [] dir = "DMA_FROM_DEVICE" ->
         kmsan_internal_unpoison_memory(m, addr, size, FALSE)
    [] OTHER -> m

kmsan_handle_dma_page(m, addr, size, dir) ==
  CASE dir = "DMA_BIDIRECTIONAL" ->
         kmsan_internal_unpoison_memory(
           kmsan_internal_check_memory(m, addr, size, 0, "REASON_ANY"),
           addr, size, FALSE)
    [] dir = "DMA_TO_DEVICE" ->
         kmsan_internal_check_memory(m, addr, size, 0, "REASON_ANY")
    [] dir = "DMA_FROM_DEVICE" ->
         kmsan_internal_unpoison_memory(m, addr, size, FALSE)
    [] OTHER -> m

\* kmsan_handle_dma() handing the whole buffer over as one chunk
handle_dma_whole(m, addr, size, dir) ==
  IF ~(size > 0) THEN m ELSE kmsan_handle_dma_page(m, addr, size, dir)

\* while (size > 0) of kmsan_handle_dma
RECURSIVE handle_dma_loop(_, _, _, _)
handle_dma_loop(m, addr, size, dir) ==
  IF ~(size > 0) \/ m.bug THEN m
  ELSE LET page_offset == addr % PAGE_SIZE
           to_go == Min(PAGE_SIZE - page_offset, size)
       IN  handle_dma_loop(kmsan_handle_dma_page(m, addr, to_go, dir),
                           addr + to_go, size - to_go, dir)

kmsan_handle_dma(m, page, offset, size, dir) ==
  handle_dma_loop(m, data_address(page) + offset, size, dir)

\* ----------------------------------------------- shadow.c: page hooks
memcpy_origin(m, d, s, n) ==
  LET slots == {KMSAN_ORIGIN_SIZE * i : i \in 0 .. (n \div KMSAN_ORIGIN_SIZE - 1)}
  IN  [m EXCEPT !.org = [l \in DOMAIN m.org |->
                           IF (l - d) \in slots /\ (l - d + s) \in DOMAIN m.org
                           THEN m.org[l - d + s] ELSE m.org[l]],
                !.oob = @ \/ (\E k \in slots : (d + k) \notin OriginLocs
                                               \/ (s + k) \notin OriginLocs),
                !.ung = @ \/ (n > 0 /\ m.rt = 0)]

\* kmsan_copy_page_meta that copies the shadow page and leaves the origins
copy_page_meta_shadow_only(m, dst, src) ==
  IF ~kmsan_ready \/ in_runtime(m) THEN m
  ELSE IF dst = NoPage \/ ~page_has_metadata(dst) THEN m
  ELSE IF src = NoPage \/ ~page_has_metadata(src)
  THEN kmsan_internal_unpoison_memory(m, data_address(dst), PAGE_SIZE, FALSE)
  ELSE kmsan_leave_runtime(
         memmove_shadow(kmsan_enter_runtime(m), shadow_ptr_for(dst),
                        shadow_ptr_for(src), PAGE_SIZE))

\* dst, src: a page, or NoPage for a NULL struct page pointer
kmsan_copy_page_meta(m, dst, src) ==
  IF ~kmsan_ready \/ in_runtime(m) THEN m
  ELSE IF dst = NoPage \/ ~page_has_metadata(dst) THEN m
  ELSE IF src = NoPage \/ ~page_has_metadata(src)
  THEN kmsan_internal_unpoison_memory(m, data_address(dst), PAGE_SIZE, FALSE)
  ELSE kmsan_leave_runtime(
         memcpy_origin(
           memmove_shadow(kmsan_enter_runtime(m), shadow_ptr_for(dst),
                          shadow_ptr_for(src), PAGE_SIZE),
           origin_ptr_for(dst), origin_ptr_for(src), PAGE_SIZE))

\* kmsan_alloc_page that takes only __GFP_ZERO as "initialized"
alloc_page_ignore_ready(m, stk, page, order, zero) ==
  LET pages == 2 ^ order
      sh_p == shadow_ptr_for(page)
      or_p == origin_ptr_for(page)
      slots == (PAGE_SIZE * pages) \div KMSAN_ORIGIN_SIZE
  IN  IF zero
      THEN fill_origin(memset_shadow(m, sh_p, 0, PAGE_SIZE * pages),
                       or_p, slots, 0)
      ELSE IF in_runtime(m) THEN m
      ELSE LET m1 == memset_shadow(m, sh_p, 0 - 1, PAGE_SIZE * pages)
               s == kmsan_save_stack_with_flags(kmsan_enter_runtime(m1), stk, 0)
           IN  fill_origin(kmsan_leave_runtime(s.m), or_p, slots, s.h)

\* page has metadata (the allocator hands out pages set up by
\* kmsan_setup_meta); zero: flags & __GFP_ZERO
kmsan_alloc_page(m, stk, page, order, zero) ==
  LET initialized == zero \/ ~kmsan_ready
      pages == 2 ^ order
      sh_p == shadow_ptr_for(page)
      or_p == origin_ptr_for(page)
      slots == (PAGE_SIZE * pages) \div KMSAN_ORIGIN_SIZE
  IN  IF initialized
      THEN fill_origin(memset_shadow(m, sh_p, 0, PAGE_SIZE * pages),
                       or_p, slots, 0)
      ELSE IF in_runtime(m) THEN m
      ELSE LET m1 == memset_shadow(m, sh_p, 0 - 1, PAGE_SIZE * pages)
               s == kmsan_save_stack_with_flags(kmsan_enter_runtime(m1), stk, 0)
           IN  fill_origin(kmsan_leave_runtime(s.m), or_p, slots, s.h)

kmsan_free_page(m, page, order) == m

\* the dummy pages lie outside the metadata pools
dummy_load_page == 0 - PAGE_SIZE

dummy_store_page == 0 - 2 * PAGE_SIZE

\* the bytes of the two dummy pages
DummyLoadLocs == dummy_load_page .. (dummy_load_page + PAGE_SIZE - 1)

DummyStoreLocs == dummy_store_page .. (dummy_store_page + PAGE_SIZE - 1)

\* the memory `shadow` holds: the shadow pool and the two dummy pages
ShadowMem == MetaLocs \cup DummyLoadLocs \cup DummyStoreLocs

\* kmsan_get_shadow_origin_ptr with one dummy page for loads and stores
get_ptr_one_dummy(m, address, size, store) ==
  LET dummy == dummy_load_page
      shadow_p == kmsan_get_metadata(address, FALSE)
  IN  IF size > PAGE_SIZE THEN [m |-> BUG(m), ret |-> <<0, 0>>]
      ELSE IF ~kmsan_ready \/ in_runtime(m)
      THEN [m |-> m, ret |-> <<dummy, dummy>>]
      ELSE IF ~kmsan_metadata_is_contiguous(address, size)
      THEN [m |-> BUG(m), ret |-> <<0, 0>>]
      ELSE IF shadow_p = NULL THEN [m |-> m, ret |-> <<dummy, dummy>>]
      ELSE [m |-> m, ret |-> <<shadow_p, kmsan_get_metadata(address, TRUE)>>]

\* the pointers kmsan_get_shadow_origin_ptr returns
kmsan_get_shadow_origin_ptr(m, address, size, store) ==
  LET dummy == IF store THEN dummy_store_page ELSE dummy_load_page
      shadow_p == kmsan_get_metadata(address, FALSE)
  IN  IF size > PAGE_SIZE THEN [m |-> BUG(m), ret |-> <<0, 0>>]
      ELSE IF ~kmsan_ready \/ in_runtime(m)
      THEN [m |-> m, ret |-> <<dummy, dummy>>]
      ELSE IF ~kmsan_metadata_is_contiguous(address, size)
      THEN [m |-> BUG(m), ret |-> <<0, 0>>]
      ELSE IF shadow_p = NULL THEN [m |-> m, ret |-> <<dummy, dummy>>]
      ELSE [m |-> m, ret |-> <<shadow_p, kmsan_get_metadata(address, TRUE)>>]

\* ---------------------------------------------------------- the steps
B(b) == IF b THEN 1 ELSE 0

Running == ~bug /\ ~oob /\ nops < MaxOps

\* a call that ran m to completion, recorded as c
Do(m, c) ==
  /\ shadow' = m.sh
  /\ origin' = m.org
  /\ depot' = m.depot
  /\ kmsan_in_runtime' = m.rt
  /\ kmsan_skipped_origins' = m.skipped
  /\ reports' = m.reps
  /\ bug' = m.bug
  /\ oob' = m.oob
  /\ unguarded' = m.ung
  /\ prev' = call
  /\ call' = c
  /\ nops' = nops + 1
  /\ UNCHANGED <<lookup, vmap, kmsan_ready, page_shadow, page_origin>>

\* kmsan_setup_meta(page, shadow, origin, order), before the first call
SetupMeta(FP) ==
  \E page \in Pages, fp \in FP, order \in 0 .. 1 :
    LET blk == 0 .. (2 ^ order - 1)
        sf == fp[1]
        of == fp[2]
    IN  /\ ~kmsan_ready /\ nops = 0 /\ kmsan_in_runtime = 0
        /\ \A i \in blk : /\ page + i \in Pages
                          /\ page_shadow[page + i] = 0
                          /\ page_origin[page + i] = 0
                          /\ sf + i \in Frames
                          /\ of + i \in Frames
                          /\ \A q \in Pages : /\ page_shadow[q] # sf + i
                                              /\ page_origin[q] # of + i
        /\ page_shadow' = [q \in Pages |->
                             IF q - page \in blk THEN sf + (q - page)
                             ELSE page_shadow[q]]
        /\ page_origin' = [q \in Pages |->
                             IF q - page \in blk THEN of + (q - page)
                             ELSE page_origin[q]]
        /\ UNCHANGED <<lookup, vmap, kmsan_ready, kmsan_in_runtime, shadow, origin, depot,
                       reports, bug, oob, unguarded, kmsan_skipped_origins,
                       call, prev, nops>>

\* kmsan_initialize(): kmsan_ready = true, once
Initialize ==
  /\ ~kmsan_ready /\ ~bug /\ kmsan_in_runtime = 0
  /\ kmsan_ready' = TRUE
  /\ UNCHANGED <<lookup, vmap, kmsan_in_runtime, page_shadow, page_origin, shadow, origin,
                 depot, reports, bug, oob, unguarded, kmsan_skipped_origins,
                 call, prev, nops>>

\* the runtime enters its own bookkeeping (a stack save, a report being
\* printed); the hooks called from inside it find the counter raised
EnterRuntime ==
  /\ Running /\ kmsan_in_runtime = 0
  /\ kmsan_in_runtime' = kmsan_enter_runtime(Mach).rt
  /\ UNCHANGED <<lookup, vmap, kmsan_ready, page_shadow, page_origin, shadow, origin, depot,
                 reports, bug, oob, unguarded, kmsan_skipped_origins, call,
                 prev, nops>>

LeaveRuntime ==
  /\ ~bug /\ kmsan_in_runtime > 0
  /\ kmsan_in_runtime' = kmsan_leave_runtime(Mach).rt
  /\ UNCHANGED <<lookup, vmap, kmsan_ready, page_shadow, page_origin, shadow, origin, depot,
                 reports, bug, oob, unguarded, kmsan_skipped_origins, call,
                 prev, nops>>

PoisonMemory(A, N, K) ==
  /\ Running
  /\ \E a \in A, n \in N, stk \in K :
    Do(kmsan_poison_memory(Mach, stk, a, n), <<"kmsan_poison_memory", a, n, stk>>)

UnpoisonMemory(A, N) ==
  /\ Running
  /\ \E a \in A, n \in N :
    Do(kmsan_unpoison_memory(Mach, a, n), <<"kmsan_unpoison_memory", a, n>>)

CheckMemory(A, N) ==
  /\ Running
  /\ \E a \in A, n \in N :
    Do(kmsan_check_memory(Mach, a, n), <<"kmsan_check_memory", a, n>>)

MemmoveMetadata(D, S, N, K) ==
  /\ Running
  /\ \E d \in D, s \in S, n \in N, stk \in K :
    Do(memmove_metadata(Mach, stk, d, s, n),
       <<"kmsan_memmove_metadata", d, s, n, stk>>)

AllocPage(K) ==
  /\ Running
  /\ \E page \in Pages, order \in 0 .. 1, zero \in BOOLEAN, stk \in K :
    /\ page + 2 ^ order - 1 \in Pages
    /\ page_has_metadata(page)
    /\ Do(kmsan_alloc_page(Mach, stk, page, order, zero),
          <<"kmsan_alloc_page", page, order, B(zero), stk>>)

FreePage ==
  /\ Running
  /\ \E page \in Pages, order \in 0 .. 1 :
    /\ page + 2 ^ order - 1 \in Pages
    /\ Do(kmsan_free_page(Mach, page, order), <<"kmsan_free_page", page, order>>)

CopyPageMeta ==
  /\ Running
  /\ \E dst \in Pages \cup {NoPage}, src \in Pages \cup {NoPage} :
    Do(kmsan_copy_page_meta(Mach, dst, src), <<"kmsan_copy_page_meta", dst, src>>)

Caches == {[ctor |-> c, rcu |-> r, poison |-> q, object_size |-> n] :
             c \in BOOLEAN, r \in BOOLEAN, q \in BOOLEAN,
             n \in {KMSAN_ORIGIN_SIZE - 1}}

SlabAlloc(A, K) ==
  /\ Running
  /\ \E s \in Caches, object \in A, zero \in BOOLEAN, stk \in K :
    Do(kmsan_slab_alloc(Mach, stk, s, object, zero),
       <<"kmsan_slab_alloc", B(s.ctor), B(s.rcu), B(s.poison), s.object_size,
         object, B(zero), stk>>)

SlabFree(A, K) ==
  /\ Running
  /\ \E s \in Caches, object \in A, stk \in K :
    Do(kmsan_slab_free(Mach, stk, s, object),
       <<"kmsan_slab_free", B(s.ctor), B(s.rcu), B(s.poison), s.object_size,
         object, stk>>)

KmallocLarge(K) ==
  /\ Running
  /\ \E page \in Pages, order \in 0 .. 1, zero \in BOOLEAN, stk \in K :
    Do(kmsan_kmalloc_large(Mach, stk, data_address(page),
                           PAGE_SIZE * (2 ^ order), zero),
       <<"kmsan_kmalloc_large", data_address(page), PAGE_SIZE * (2 ^ order),
         B(zero), stk>>)

KfreeLarge(K) ==
  /\ Running
  /\ \E page \in Pages, order \in 0 .. 1, stk \in K :
    Do(kmsan_kfree_large(Mach, stk, data_address(page), order),
       <<"kmsan_kfree_large", data_address(page), order, stk>>)

\* to: a user address (below TASK_SIZE) or a kernel address
CopyToUser(T, F, N, K) ==
  /\ Running
  /\ \E to \in T, from \in F, to_copy \in N, left \in N, stk \in K :
    Do(kmsan_copy_to_user(Mach, stk, to, from, to_copy, left),
       <<"kmsan_copy_to_user", to, from, to_copy, left, stk>>)

HandleUrb(A, N) ==
  /\ Running
  /\ \E buf \in A, len \in N, is_out \in BOOLEAN :
    Do(kmsan_handle_urb(Mach, buf, len, is_out),
       <<"kmsan_handle_urb", buf, len, B(is_out)>>)

DmaDirs == {"DMA_BIDIRECTIONAL", "DMA_TO_DEVICE", "DMA_FROM_DEVICE", "DMA_NONE"}

HandleDma(O, N) ==
  /\ Running
  /\ \E page \in Pages, offset \in O, size \in N, dir \in DmaDirs :
    Do(kmsan_handle_dma(Mach, page, offset, size, dir),
       <<"kmsan_handle_dma", page, offset, size, dir>>)

GetShadowOriginPtr(A, N) ==
  /\ Running
  /\ \E a \in A, n \in N, store \in BOOLEAN :
    LET r == kmsan_get_shadow_origin_ptr(Mach, a, n, store)
    IN  Do(r.m, <<"kmsan_get_shadow_origin_ptr", a, n, B(store), r.ret[1],
                  r.ret[2]>>)

\* the resolver called on its own: it has no assignment to any global
GetMetadata(A) ==
  /\ Running
  /\ \E a \in A, is_origin \in BOOLEAN :
       Do(Mach, <<"kmsan_get_metadata", a, B(is_origin),
                  kmsan_get_metadata(a, is_origin)>>)

\* ------------------------------------------------- the specifications
Init ==
  /\ kmsan_ready = FALSE
  /\ kmsan_in_runtime = 0
  /\ page_shadow = [p \in Pages |-> 0]
  /\ page_origin = [p \in Pages |-> 0]
  /\ shadow = [l \in ShadowMem |-> 0]
  /\ origin = [l \in OriginLocs |-> 0]
  /\ depot = <<>>
  /\ reports = <<>>
  /\ bug = FALSE
  /\ oob = FALSE
  /\ unguarded = FALSE
  /\ kmsan_skipped_origins = 0
  /\ call = <<"init">>
  /\ prev = <<"init">>
  /\ nops = 0
  /\ vmap = VmapInit
  /\ lookup = LookupInit

\* kmsan_setup_meta() is given a shadow and an origin frame by the page
\* allocator: any two free frames, or frames of the same index
AllFramePairs == Frames \X Frames
SameFramePairs == {<<f, f>> : f \in Frames}

\* the calls of the general specification work at a page boundary:
\* every alignment, both sides of the boundary
WinAddrs == (PAGE_SIZE - 2) .. (PAGE_SIZE + 1)
WinLens == {0, 1, KMSAN_ORIGIN_SIZE - 1, KMSAN_ORIGIN_SIZE + 1}
UserAddrs == {TASK_SIZE - PAGE_SIZE}

OneStack == {NumStacks}
MoveSrcs == {PAGE_SIZE - 2, PAGE_SIZE + 1}
MoveLens == {0, KMSAN_ORIGIN_SIZE - 1, KMSAN_ORIGIN_SIZE + 1}
CopyLens == {0, 1, KMSAN_ORIGIN_SIZE - 1}

Next ==
  \/ SetupMeta(SameFramePairs)
  \/ (nops = 0 /\ Initialize)
  \/ (nops = 0 /\ EnterRuntime)
  \/ LeaveRuntime
  \/ PoisonMemory(WinAddrs, WinLens, Stacks)
  \/ UnpoisonMemory(WinAddrs, WinLens)
  \/ CheckMemory(WinAddrs, WinLens \cup {PAGE_SIZE + 1})
  \/ MemmoveMetadata(WinAddrs, MoveSrcs, MoveLens, OneStack)
  \/ AllocPage(OneStack)
  \/ FreePage
  \/ CopyPageMeta
  \/ SlabAlloc({PAGE_SIZE - 2}, OneStack)
  \/ SlabFree({PAGE_SIZE - 2}, OneStack)
  \/ KmallocLarge(OneStack)
  \/ KfreeLarge(OneStack)
  \/ CopyToUser(UserAddrs \cup {0}, {PAGE_SIZE - 2}, CopyLens, OneStack)
  \/ HandleUrb({PAGE_SIZE - 2}, WinLens)
  \/ HandleDma({PAGE_SIZE - 2}, MoveLens)
  \/ GetShadowOriginPtr({PAGE_SIZE - 2}, {1, PAGE_SIZE + 1})
  \/ GetMetadata({PAGE_SIZE - 2, PAGE_SIZE, LinearEnd})

Spec == Init /\ [][Next]_vars

\* ------------------------------------ kmsan_metadata_is_contiguous alone
\* the function applied to an address and a size, its result recorded
IsContiguous(A, N) ==
  /\ ~bug
  /\ \E a \in A, n \in N :
       /\ call' = <<"kmsan_metadata_is_contiguous", a, n,
                    B(kmsan_metadata_is_contiguous(a, n))>>
       /\ prev' = call
       /\ nops' = nops + 1
       /\ UNCHANGED <<lookup, vmap, kmsan_ready, kmsan_in_runtime, page_shadow, page_origin,
                      shadow, origin, depot, reports, bug, oob, unguarded,
                      kmsan_skipped_origins>>

NextContig ==
  \/ SetupMeta(AllFramePairs)
  \/ (nops = 0 /\ IsContiguous(Addrs, Lens))

SpecContig == Init /\ [][NextContig]_vars

\* the pages [addr, addr+size) overlaps; a page past the linear mapping
\* has no struct page and no metadata
PagesOf(addr, size) ==
  {q \in 0 .. NumPages + (MaxLen \div PAGE_SIZE) + 1 :
     /\ size > 0
     /\ q >= addr \div PAGE_SIZE
     /\ q <= (addr + size - 1) \div PAGE_SIZE}

HasMeta(q) == q \in Pages /\ page_shadow[q] # 0 /\ page_origin[q] # 0

\* "uniformly metadata-backed at consistent relative offsets or uniformly
\* unmetadata-backed" (spec, section 8, contiguity gate)
Uniform(addr, size) ==
  \/ \A q \in PagesOf(addr, size) : ~HasMeta(q)
  \/ /\ \A q \in PagesOf(addr, size) : HasMeta(q)
     /\ \A q \in PagesOf(addr, size) :
          (q + 1) \in PagesOf(addr, size) =>
            /\ page_shadow[q + 1] = page_shadow[q] + 1
            /\ page_origin[q + 1] = page_origin[q] + 1

\* C3: kmsan_metadata_is_contiguous(addr, size) returns true if and only
\* if the pages overlapped by [addr, addr+size) are uniformly without
\* metadata or uniformly with metadata one page apart, for every addr
\* (page-aligned or not) and size.
C3_ContiguousIff ==
  call[1] = "kmsan_metadata_is_contiguous" =>
    (call[4] = 1 <=> Uniform(call[2], call[3]))

\* the same for a page-aligned addr, where the loop visits every page
Aligned_ContiguousIff ==
  (call[1] = "kmsan_metadata_is_contiguous" /\ call[2] % PAGE_SIZE = 0) =>
    (call[4] = 1 <=> Uniform(call[2], call[3]))

\* ------------------------------------------ poison, unpoison and check
\* the page tables kmsan_setup_meta can leave, shadow and origin frames of
\* the same index: no frame serves two pages
Layouts ==
  {lay \in [Pages -> 0 .. NumMeta] :
     \A q \in Pages, r \in Pages : (q # r /\ lay[q] # 0) => lay[q] # lay[r]}

TrackedLayouts == {lay \in Layouts : lay[0] # 0}

\* a booted system: metadata set up, kmsan_ready set, nothing poisoned yet
InitBooted(L) ==
  /\ kmsan_ready = TRUE
  /\ kmsan_in_runtime = 0
  /\ page_shadow \in L
  /\ page_origin = page_shadow
  /\ shadow = [l \in ShadowMem |-> 0]
  /\ origin = [l \in OriginLocs |-> 0]
  /\ depot = <<>>
  /\ reports = <<>>
  /\ bug = FALSE
  /\ oob = FALSE
  /\ unguarded = FALSE
  /\ kmsan_skipped_origins = 0
  /\ call = <<"init">>
  /\ prev = <<"init">>
  /\ nops = 0
  /\ vmap = VmapInit
  /\ lookup = LookupInit

LinearAddrs == 0 .. (LinearEnd - 1)

NextScan ==
  \/ PoisonMemory(LinearAddrs, Lens, OneStack)
  \/ UnpoisonMemory(LinearAddrs, Lens)
  \/ CheckMemory(LinearAddrs, Lens)

SpecScan == InitBooted(TrackedLayouts) /\ [][NextScan]_vars

\* every byte of [x, x+n) has metadata
Tracked(x, n) ==
  \A a \in x .. (x + n - 1) : kmsan_get_metadata(a, FALSE) # NULL

ShadowOf(a) == shadow[kmsan_get_metadata(a, FALSE)]

OriginOf(a) == origin[kmsan_get_metadata(a, TRUE)]

\* what check(x, n) emits in the current state: <<first, last, origin>>
Emitted(x, n) ==
  LET r == kmsan_check_memory(Mach, x, n).reps
  IN  [i \in 1 .. Len(r) |-> <<r[i].off_first, r[i].off_last, r[i].origin>>]

CheckBugs(x, n) == kmsan_check_memory(Mach, x, n).bug

\* the handle the last-but-one call, a poison, stored in the origins
PoisonHandle == depot_index(depot, <<prev[4]>>) * ExtraBitsMod

\* C1: after poisoning the granule-aligned tracked [x, x+8) with origin O1
\* and unpoisoning offsets 2..4, check over [x, x+8) emits exactly the two
\* reports [0,1] and [5,7], both with origin O1.
C1_EndToEnd ==
  \A x \in LinearAddrs :
    ( /\ x % KMSAN_ORIGIN_SIZE = 0
      /\ Tracked(x, 8)
      /\ ~bug
      /\ prev[1] = "kmsan_poison_memory"
      /\ prev[2] = x
      /\ prev[3] = 8
      /\ call = <<"kmsan_unpoison_memory", x + 2, 3>> )
    => /\ PoisonHandle # 0
       /\ ~CheckBugs(x, 8)
       /\ Emitted(x, 8) = << <<0, 1, PoisonHandle>>, <<5, 7, PoisonHandle>> >>

\* C4: from an all-clean tracked [x, x+n), poison(x+a, l) followed by
\* check(x, n) emits exactly one report, [a, a+l-1], with a nonzero origin
\* (a check that stops at the contiguity assertion is left out of account).
C4_PoisonThenCheck ==
  ( /\ nops = 1
    /\ ~bug
    /\ call[1] = "kmsan_poison_memory"
    /\ call[3] >= 1 )
  => \A x \in LinearAddrs, n \in 1 .. (2 * PAGE_SIZE) :
       ( /\ x <= call[2]
         /\ call[2] + call[3] <= x + n
         /\ Tracked(x, n)
         /\ ~CheckBugs(x, n) )
       => /\ Len(Emitted(x, n)) = 1
          /\ Emitted(x, n)[1][1] = call[2] - x
          /\ Emitted(x, n)[1][2] = call[2] - x + call[3] - 1
          /\ Emitted(x, n)[1][3] # 0

\* C6: after unpoison(x, n) on tracked memory every shadow byte and every
\* origin granule of [x, x+n) is 0, and a second unpoison(x, n) changes no
\* shadow byte and no origin granule.
C6_UnpoisonIdempotent ==
  ( /\ call[1] = "kmsan_unpoison_memory"
    /\ ~bug
    /\ Tracked(call[2], call[3]) )
  => /\ \A a \in call[2] .. (call[2] + call[3] - 1) :
          ShadowOf(a) = 0 /\ OriginOf(a) = 0
     /\ kmsan_unpoison_memory(Mach, call[2], call[3]).sh = shadow
     /\ kmsan_unpoison_memory(Mach, call[2], call[3]).org = origin

\* the range lies in one page, or its pages' metadata is contiguous
Contig(x, n) == Uniform(x, n)

\* the same three properties, for ranges whose metadata is contiguous
Contiguous_PoisonThenCheck ==
  (nops = 1 /\ ~bug /\ call[1] = "kmsan_poison_memory" /\ call[3] >= 1)
  => \A x \in LinearAddrs, n \in 1 .. (2 * PAGE_SIZE) :
       ( /\ x <= call[2] /\ call[2] + call[3] <= x + n
         /\ Tracked(x, n) /\ Contig(x, n) )
       => /\ ~CheckBugs(x, n)
          /\ Emitted(x, n) = << <<call[2] - x, call[2] - x + call[3] - 1,
                                 depot_index(depot, <<call[4]>>) * ExtraBitsMod>> >>

Contiguous_UnpoisonIdempotent ==
  ( /\ call[1] = "kmsan_unpoison_memory" /\ ~bug
    /\ Tracked(call[2], call[3]) /\ Contig(call[2], call[3]) )
  => /\ \A a \in call[2] .. (call[2] + call[3] - 1) :
          ShadowOf(a) = 0 /\ OriginOf(a) = 0
     /\ kmsan_unpoison_memory(Mach, call[2], call[3]).sh = shadow
     /\ kmsan_unpoison_memory(Mach, call[2], call[3]).org = origin

\* ------------------------------------------------------ metadata moves
\* sources at every granule offset, inside the linear zone and past it
MoveFrom ==
  (PAGE_SIZE - 2) .. (PAGE_SIZE + 1) \cup LinearEnd .. (LinearEnd + 3)

\* one poison sets up the state the move then acts on
NextMove ==
  \/ (nops = 0 /\ PoisonMemory(LinearAddrs, Lens \ {0}, OneStack))
  \/ (nops = 1 /\ MemmoveMetadata(LinearAddrs, MoveFrom, Lens, OneStack))

SpecMove == InitBooted(TrackedLayouts) /\ [][NextMove]_vars

Untracked(x, n) ==
  \A a \in x .. (x + n - 1) : kmsan_get_metadata(a, FALSE) = NULL

\* C5: with dst tracked and src without metadata, after
\* kmsan_memmove_metadata(dst, src, n) every shadow byte of [dst, dst+n)
\* is 0 and a check over [dst, dst+n) emits no report.
C5_CleanFromUntracked ==
  ( /\ call[1] = "kmsan_memmove_metadata"
    /\ ~bug
    /\ call[4] >= 1
    /\ Tracked(call[2], call[4])
    /\ Untracked(call[3], call[4]) )
  => /\ \A a \in call[2] .. (call[2] + call[4] - 1) : ShadowOf(a) = 0
     /\ ~CheckBugs(call[2], call[4])
     /\ Emitted(call[2], call[4]) = <<>>

Contiguous_CleanFromUntracked ==
  ( /\ call[1] = "kmsan_memmove_metadata" /\ ~bug /\ call[4] >= 1
    /\ Tracked(call[2], call[4]) /\ Contig(call[2], call[4])
    /\ Untracked(call[3], call[4]) )
  => /\ \A a \in call[2] .. (call[2] + call[4] - 1) : ShadowOf(a) = 0
     /\ ~CheckBugs(call[2], call[4])
     /\ Emitted(call[2], call[4]) = <<>>

\* ------------------------------------------------ claims on the whole runtime
\* C2: after any sequence of operations on tracked memory, an origin granule
\* holding handle 0 has all of its shadow bytes 0: handle 0 never coexists
\* with a poisoned byte of the same granule.
C2_ZeroOriginIsClean ==
  \A a \in LinearAddrs :
    (kmsan_get_metadata(a, FALSE) # NULL /\ ShadowOf(a) # 0) => OriginOf(a) # 0

\* ------------------------------------------------------ origin chains
\* kmsan_save_stack_with_flags() hands out a handle of depth 0
SaveStack ==
  /\ nops = 0
  /\ \E stk \in Stacks, free \in BOOLEAN :
       LET s == kmsan_save_stack_with_flags(Mach, stk, kmsan_extra_bits(0, free))
       IN  Do(s.m, <<"kmsan_save_stack_with_flags", stk, B(free), s.h,
                     Len(depot)>>)

\* kmsan_internal_chain_origin() on the handle the call before returned
ChainOrigin ==
  /\ nops >= 1 /\ nops <= MaxChain
  /\ \E stk \in Stacks :
       LET s == kmsan_internal_chain_origin(Mach, stk, call[4])
       IN  Do(s.m, <<"kmsan_internal_chain_origin", call[4], stk, s.h,
                     Len(depot)>>)

NextChain == SaveStack \/ ChainOrigin

SpecChain == Init /\ [][NextChain]_vars

\* the chain calls made so far on the depth-0 handle
Chained == nops - 1

DepthOf(handle) == kmsan_depth_from_eb(stack_depot_get_extra_bits(handle))

Resolved(a, is_origin) ==
  IF a \in LinearAddrs /\ HasMeta(a \div PAGE_SIZE)
  THEN IF is_origin
       THEN page_address(page_origin[a \div PAGE_SIZE])
            + (ALIGN_DOWN(a, KMSAN_ORIGIN_SIZE) % PAGE_SIZE)
       ELSE page_address(page_shadow[a \div PAGE_SIZE]) + (a % PAGE_SIZE)
  ELSE NULL

\* C8 as stated: kmsan_get_metadata returns NULL for every address and both
\* kinds whenever kmsan_ready is false or the re-entrancy counter is above 0.
C8_NoneUnlessReady ==
  (call[1] = "kmsan_get_metadata" /\ (~kmsan_ready \/ kmsan_in_runtime > 0))
  => call[4] = NULL

\* C8, amended: kmsan_get_metadata modifies no state, and its result depends
\* on the address, the kind and the page's metadata pointers only, whatever
\* kmsan_ready and the re-entrancy counter are: the page's shadow (origin)
\* location plus the offset in the page (for origins rounded down to the
\* granule), and NULL for a page without metadata or an invalid address.
C8_ResolverIgnoresGuards ==
  [][ (call'[1] = "kmsan_get_metadata" /\ nops' # nops)
      => /\ call'[4] = Resolved(call'[2], call'[3] = 1)
         /\ UNCHANGED <<kmsan_ready, kmsan_in_runtime, page_shadow, page_origin,
                        shadow, origin, depot, bug, oob,
                        kmsan_skipped_origins>> ]_vars

C8_ResolvedInRuntime ==
  /\ call[1] = "kmsan_get_metadata"
  /\ kmsan_in_runtime > 0
  /\ call[4] # NULL
  /\ call[3] = 1
  /\ call[2] % KMSAN_ORIGIN_SIZE # 0

\* C9: while kmsan_ready is false no public entry point emits a report,
\* sets a shadow byte to nonzero or reaches a fatal assertion.
C9_NoOpBeforeReady ==
  ~kmsan_ready
  => /\ reports = <<>>
     /\ \A l \in MetaLocs : shadow[l] = 0
     /\ ~bug

\* C10: in every public entry point each write to shadow or origin memory,
\* each stack capture and each depot call happens with the re-entrancy
\* counter above 0.
C10_WritesUnderGuard == ~unguarded

\* ------------------------------------------------ page lifecycle hooks
\* metadata set up at boot and nothing poisoned yet; kmsan_ready is either
\* still clear or already set
InitPages ==
  /\ kmsan_ready \in BOOLEAN
  /\ kmsan_in_runtime = 0
  /\ page_shadow \in Layouts
  /\ page_origin = page_shadow
  /\ shadow = [l \in ShadowMem |-> 0]
  /\ origin = [l \in OriginLocs |-> 0]
  /\ depot = <<>>
  /\ reports = <<>>
  /\ bug = FALSE
  /\ oob = FALSE
  /\ unguarded = FALSE
  /\ kmsan_skipped_origins = 0
  /\ call = <<"init">>
  /\ prev = <<"init">>
  /\ nops = 0
  /\ vmap = VmapInit
  /\ lookup = LookupInit

NextPages ==
  \/ (nops = 0 /\ PoisonMemory(LinearAddrs, Lens \ {0}, OneStack))
  \/ EnterRuntime
  \/ LeaveRuntime
  \/ AllocPage(OneStack)
  \/ FreePage
  \/ CopyPageMeta

SpecPages == InitPages /\ [][NextPages]_vars

\* the addresses of the 2^order pages of the block that starts at page
BlockAddrs(page, order) ==
  data_address(page) .. (data_address(page) + PAGE_SIZE * 2 ^ order - 1)

\* every page of the block has metadata, laid out as kmsan_setup_meta lays
\* out a block: consecutive shadow pages and consecutive origin pages
BlockHasMeta(page, order) ==
  /\ \A q \in page .. (page + 2 ^ order - 1) : HasMeta(q)
  /\ Uniform(data_address(page), PAGE_SIZE * 2 ^ order)

\* a step that is one call of the named operation
Called(name) == call'[1] = name /\ nops' # nops

\* C11: after kmsan_free_page(page, order) on a tracked block, with the
\* tracker ready and outside the runtime, every byte of the 2^order freed
\* pages has a nonzero shadow byte.
C11_FreePoisons ==
  [][\A page \in Pages, order \in 0 .. 1 :
       (/\ Called("kmsan_free_page")
        /\ call' = <<"kmsan_free_page", page, order>>
        /\ kmsan_ready
        /\ kmsan_in_runtime = 0
        /\ BlockHasMeta(page, order))
         => \A a \in BlockAddrs(page, order) : ShadowOf(a)' # 0]_vars

\* the handle one capture of stack stk with extra bits 0 yields
CaptureHandle(stk) == depot_index(depot, <<stk>>) * ExtraBitsMod

\* C12: after kmsan_alloc_page on a block with metadata: with __GFP_ZERO or
\* with kmsan_ready clear every shadow byte and every origin granule of the
\* block is 0; otherwise, outside the runtime, every shadow byte is nonzero
\* and every origin granule holds the one handle of a single stack capture.
C12_AllocPage ==
  [][\A page \in Pages, order \in 0 .. 1, zero \in BOOLEAN, stk \in Stacks :
       (/\ Called("kmsan_alloc_page")
        /\ call' = <<"kmsan_alloc_page", page, order, B(zero), stk>>
        /\ BlockHasMeta(page, order))
         => LET block == BlockAddrs(page, order)
            IN  IF zero \/ ~kmsan_ready
                THEN \A a \in block : ShadowOf(a)' = 0 /\ OriginOf(a)' = 0
                ELSE kmsan_in_runtime = 0 =>
                       /\ \A a \in block : ShadowOf(a)' # 0
                       /\ CaptureHandle(stk)' # 0
                       /\ \A a \in block : OriginOf(a)' = CaptureHandle(stk)'
                       /\ Len(depot') <= Len(depot) + 1]_vars

\* an order-1 block that a poison call had marked in part is allocated
\* without __GFP_ZERO outside the runtime and is poisoned as a whole
C12_Allocated ==
  /\ call[1] = "kmsan_alloc_page"
  /\ prev[1] = "kmsan_poison_memory"
  /\ call[3] = 1
  /\ call[4] = 0
  /\ BlockHasMeta(call[2], call[3])
  /\ kmsan_ready
  /\ \A a \in BlockAddrs(call[2], call[3]) :
       ShadowOf(a) # 0 /\ OriginOf(a) = CaptureHandle(call[5])

\* C13: a block allocated by kmsan_alloc_page inside the runtime is treated
\* as initialized: whatever its metadata was, a check over the block after
\* the call emits no report.
C13_RuntimeAllocClean ==
  [][\A page \in Pages, order \in 0 .. 1 :
       (/\ Called("kmsan_alloc_page")
        /\ call'[2] = page
        /\ call'[3] = order
        /\ kmsan_in_runtime > 0
        /\ BlockHasMeta(page, order))
         => \A q \in page .. (page + 2 ^ order - 1) :
              Emitted(data_address(q), PAGE_SIZE)' = <<>>]_vars

\* byte k of the shadow page and of the origin page of a page with metadata
ShadowAt(page, k) == shadow[shadow_ptr_for(page) + k]

OriginAt(page, k) ==
  origin[origin_ptr_for(page) + ALIGN_DOWN(k, KMSAN_ORIGIN_SIZE)]

\* C15: kmsan_copy_page_meta(dst, src), ready and outside the runtime: when
\* dst has no metadata nothing changes; when dst has metadata and src has
\* none the whole shadow and origin pages of dst become 0; when both have
\* metadata the shadow and origin pages of dst become equal to those of src,
\* which do not change.
C15_CopyPageMeta ==
  [][\A dst \in Pages \cup {NoPage}, src \in Pages \cup {NoPage} :
       (/\ Called("kmsan_copy_page_meta")
        /\ call' = <<"kmsan_copy_page_meta", dst, src>>
        /\ kmsan_ready
        /\ kmsan_in_runtime = 0)
         => IF ~HasMeta(dst) THEN UNCHANGED <<shadow, origin>>
            ELSE IF ~HasMeta(src)
            THEN \A k \in 0 .. (PAGE_SIZE - 1) :
                   ShadowAt(dst, k)' = 0 /\ OriginAt(dst, k)' = 0
            ELSE \A k \in 0 .. (PAGE_SIZE - 1) :
                   /\ ShadowAt(dst, k)' = ShadowAt(src, k)'
                   /\ OriginAt(dst, k)' = OriginAt(src, k)'
                   /\ ShadowAt(src, k)' = ShadowAt(src, k)
                   /\ OriginAt(src, k)' = OriginAt(src, k)]_vars

\* the metadata of a poisoned page has been copied over another page
C15_Copied ==
  /\ call[1] = "kmsan_copy_page_meta"
  /\ prev[1] = "kmsan_poison_memory"
  /\ HasMeta(call[2])
  /\ HasMeta(call[3])
  /\ call[2] # call[3]
  /\ \E k \in 0 .. (PAGE_SIZE - 1) :
       ShadowAt(call[2], k) # 0 /\ OriginAt(call[2], k) # 0

\* ------------------------------------------- slab and kmalloc hooks
SlabObjects == LinearAddrs

EdgeLens == {0, 1, KMSAN_ORIGIN_SIZE + 1, PAGE_SIZE + 1}

PoisonLens == {1, KMSAN_ORIGIN_SIZE + 1, MaxLen}

NextSlab ==
  \/ (nops = 0 /\ PoisonMemory(LinearAddrs, PoisonLens, OneStack))
  \/ (nops = 1 /\ PoisonMemory(LinearAddrs, EdgeLens, OneStack))
  \/ (nops = 1 /\ UnpoisonMemory(LinearAddrs, EdgeLens))
  \/ EnterRuntime
  \/ LeaveRuntime
  \/ (nops = 1 /\ SlabAlloc(WinAddrs, OneStack))
  \/ (nops = 1 /\ SlabFree(SlabObjects, OneStack))
  \/ (nops = 1 /\ KmallocLarge(OneStack))
  \/ (nops = 1 /\ KfreeLarge(OneStack))

SpecSlab == InitBooted(Layouts) /\ [][NextSlab]_vars

\* C14: kmsan_slab_free(s, object), ready and outside the runtime, on an
\* object that lies in tracked memory with contiguous metadata: for a cache
\* with no constructor and neither SLAB_TYPESAFE_BY_RCU nor SLAB_POISON all
\* object_size bytes end up poisoned with one handle of depth 0 whose
\* use-after-free flag is set; for a cache with a constructor or one of the
\* two flags no shadow byte and no origin granule changes.
C14_SlabFree ==
  [][\A s \in Caches, object \in SlabObjects, stk \in Stacks :
       (/\ Called("kmsan_slab_free")
        /\ call' = <<"kmsan_slab_free", B(s.ctor), B(s.rcu), B(s.poison),
                     s.object_size, object, stk>>
        /\ kmsan_ready
        /\ kmsan_in_runtime = 0)
         => IF s.ctor \/ s.rcu \/ s.poison
            THEN UNCHANGED <<shadow, origin>>
            ELSE (Tracked(object, s.object_size)
                  /\ Contig(object, s.object_size)) =>
                   LET h == OriginOf(object)'
                       eb == stack_depot_get_extra_bits(h)
                   IN  /\ ~bug'
                       /\ \A a \in object .. (object + s.object_size - 1) :
                            ShadowOf(a)' # 0 /\ OriginOf(a)' = h
                       /\ h # 0
                       /\ kmsan_depth_from_eb(eb) = 0
                       /\ kmsan_uaf_from_eb(eb)]_vars

\* an object of a plain cache that spans two granules has been freed
C14_Freed ==
  /\ call[1] = "kmsan_slab_free"
  /\ call[2] = 0 /\ call[3] = 0 /\ call[4] = 0
  /\ ~bug
  /\ call[6] % KMSAN_ORIGIN_SIZE = KMSAN_ORIGIN_SIZE - 2
  /\ Tracked(call[6], call[5])
  /\ Contig(call[6], call[5])
  /\ \A a \in call[6] .. (call[6] + call[5] - 1) :
       ShadowOf(a) # 0 /\ kmsan_uaf_from_eb(stack_depot_get_extra_bits(OriginOf(a)))

\* no byte of the range has metadata, and neither has its first address
RangeUntracked(x, n) ==
  kmsan_get_metadata(x, FALSE) = NULL /\ Untracked(x, n)

\* C19: on a range without metadata kmsan_internal_set_shadow_origin aborts
\* when checked and returns with nothing changed when unchecked: the
\* unchecked kmsan_poison_memory and kmsan_unpoison_memory change no
\* metadata, report nothing and do not abort, and the checked calls of
\* kmsan_slab_alloc, kmsan_slab_free and kmsan_kmalloc_large abort.
C19_CheckedOnUntracked ==
  [][(/\ nops' # nops
      /\ kmsan_ready
      /\ kmsan_in_runtime = 0)
       => /\ \A x \in LinearAddrs, n \in Lens :
               (/\ call'[1] \in {"kmsan_poison_memory", "kmsan_unpoison_memory"}
                /\ call'[2] = x
                /\ call'[3] = n
                /\ RangeUntracked(x, n))
                 => /\ ~bug'
                    /\ reports' = <<>>
                    /\ UNCHANGED <<shadow, origin>>
          /\ \A s \in Caches, x \in LinearAddrs :
               (/\ \/ /\ call'[1] = "kmsan_slab_alloc"
                      /\ ~s.ctor /\ ~s.rcu
                   \/ /\ call'[1] = "kmsan_slab_free"
                      /\ ~s.ctor /\ ~s.rcu /\ ~s.poison
                /\ call'[2] = B(s.ctor)
                /\ call'[3] = B(s.rcu)
                /\ call'[4] = B(s.poison)
                /\ call'[5] = s.object_size
                /\ call'[6] = x
                /\ RangeUntracked(x, s.object_size))
                 => bug' /\ UNCHANGED <<shadow, origin>>
          /\ \A x \in LinearAddrs, n \in 0 .. (2 * PAGE_SIZE) :
               (/\ call'[1] = "kmsan_kmalloc_large"
                /\ call'[2] = x
                /\ call'[3] = n
                /\ RangeUntracked(x, n))
                 => bug' /\ UNCHANGED <<shadow, origin>>]_vars

\* a checked hook has aborted on an object without metadata while another
\* page holds poison
C19_Aborted ==
  /\ call[1] = "kmsan_slab_free"
  /\ prev[1] = "kmsan_poison_memory"
  /\ bug
  /\ RangeUntracked(call[6], call[5])
  /\ \E l \in MetaLocs : shadow[l] # 0

\* ----------------------------------------------------------- DMA hook
DmaOffsets == {0, KMSAN_ORIGIN_SIZE - 2, PAGE_SIZE - 2}

DmaLens == {0, 1, KMSAN_ORIGIN_SIZE - 1, KMSAN_ORIGIN_SIZE + 1, MaxLen}

NextDma ==
  \/ (nops = 0 /\ PoisonMemory(LinearAddrs, Lens \ {0}, OneStack))
  \/ EnterRuntime
  \/ LeaveRuntime
  \/ HandleDma(DmaOffsets, DmaLens)

SpecDma == InitBooted(Layouts) /\ [][NextDma]_vars

\* the bytes of [x, x+n) that have metadata
TrackedIn(x, n) ==
  {a \in x .. (x + n - 1) : kmsan_get_metadata(a, FALSE) # NULL}

\* some report of the sequence covers address a
Reported(reps, a) ==
  \E i \in 1 .. Len(reps) :
    /\ reps[i].address + reps[i].off_first <= a
    /\ a <= reps[i].address + reps[i].off_last

\* C16: kmsan_handle_dma(page, offset, size, dir) follows the direction:
\* DMA_TO_DEVICE checks the buffer and changes no metadata; DMA_FROM_DEVICE
\* unpoisons it and reports nothing; DMA_BIDIRECTIONAL checks each chunk
\* before it unpoisons it, so that every byte poisoned at call time is
\* reported as the same call with DMA_TO_DEVICE would report it and the whole
\* buffer is clean on return; DMA_NONE does nothing.
C16_DmaDirection ==
  [][\A page \in Pages, offset \in DmaOffsets, size \in DmaLens :
       LET x == data_address(page) + offset
           checked == kmsan_handle_dma(Mach, page, offset, size,
                                       "DMA_TO_DEVICE").reps
       IN  (/\ Called("kmsan_handle_dma")
            /\ call'[2] = page
            /\ call'[3] = offset
            /\ call'[4] = size)
             => /\ ~bug'
                /\ call'[5] = "DMA_TO_DEVICE" =>
                     /\ UNCHANGED <<shadow, origin>>
                     /\ reports' = checked
                     /\ \A a \in TrackedIn(x, size) :
                          ShadowOf(a) # 0 => Reported(reports', a)
                /\ call'[5] = "DMA_FROM_DEVICE" =>
                     /\ reports' = <<>>
                     /\ \A a \in TrackedIn(x, size) : ShadowOf(a)' = 0
                /\ call'[5] = "DMA_BIDIRECTIONAL" =>
                     /\ reports' = checked
                     /\ \A a \in TrackedIn(x, size) :
                          ShadowOf(a) # 0 => Reported(reports', a)
                     /\ \A a \in TrackedIn(x, size) : ShadowOf(a)' = 0
                /\ call'[5] = "DMA_NONE" =>
                     /\ UNCHANGED <<shadow, origin>>
                     /\ reports' = <<>>]_vars

\* a bidirectional transfer over two pages has reported poison in both of
\* its chunks and left the buffer clean
C16_Bidirectional ==
  /\ call[1] = "kmsan_handle_dma"
  /\ call[5] = "DMA_BIDIRECTIONAL"
  /\ call[3] + call[4] > PAGE_SIZE
  /\ Len(reports) = 2
  /\ \A a \in TrackedIn(data_address(call[2]) + call[3], call[4]) :
       ShadowOf(a) = 0

\* ------------------------------------------------------- copy_to_user
CopyTo == UserAddrs \cup {0, 2, KMSAN_ORIGIN_SIZE + 1, PAGE_SIZE - 2,
                          PAGE_SIZE + 1, LinearEnd - KMSAN_ORIGIN_SIZE}

CopyFrom == {1, KMSAN_ORIGIN_SIZE, PAGE_SIZE - 2, PAGE_SIZE - 1,
             PAGE_SIZE + 1}

CopySizes == {0, 2, KMSAN_ORIGIN_SIZE + 1, MaxLen}

NextUser ==
  \/ (nops = 0 /\ PoisonMemory(LinearAddrs, PoisonLens, OneStack))
  \/ EnterRuntime
  \/ LeaveRuntime
  \/ (nops = 1 /\ CopyToUser(CopyTo, CopyFrom, CopySizes, OneStack))

SpecUser == InitBooted(Layouts) /\ [][NextUser]_vars

\* every poisoned byte of [x, x+n) has a nonzero origin
Attributed(x, n) ==
  \A a \in x .. (x + n - 1) : ShadowOf(a) # 0 => OriginOf(a) # 0

\* what one kmsan_copy_to_user step, ready and outside the runtime, does;
\* origins: whether the origins of the propagated bytes are looked at too
CopyToUserStep(origins) ==
  (/\ Called("kmsan_copy_to_user")
   /\ kmsan_ready
   /\ kmsan_in_runtime = 0)
    => \A to \in CopyTo, from \in CopyFrom, to_copy \in CopySizes,
          left \in CopySizes :
         LET n == to_copy - left
         IN  (/\ call'[2] = to
              /\ call'[3] = from
              /\ call'[4] = to_copy
              /\ call'[5] = left)
               => IF to_copy = 0 \/ to_copy <= left
                  THEN /\ reports' = <<>>
                       /\ ~bug'
                       /\ UNCHANGED <<shadow, origin, depot>>
                  ELSE IF to < TASK_SIZE
                  THEN /\ UNCHANGED <<shadow, origin>>
                       /\ (Tracked(from, n) /\ Contig(from, n)) =>
                            /\ ~bug'
                            /\ \A a \in from .. (from + n - 1) :
                                 ShadowOf(a) # 0 => Reported(reports', a)
                       /\ \A i \in 1 .. Len(reports') :
                            /\ reports'[i].address = from
                            /\ reports'[i].size = n
                            /\ reports'[i].user_addr = to
                            /\ reports'[i].reason = "REASON_COPY_TO_USER"
                            /\ reports'[i].off_last < n
                  ELSE /\ reports' = <<>>
                       /\ (/\ Tracked(to, n) /\ Contig(to, n)
                           /\ Tracked(from, n) /\ Contig(from, n)) =>
                            /\ ~bug'
                            /\ \A i \in 0 .. (n - 1) :
                                 ShadowOf(to + i)' = ShadowOf(from + i)
                            /\ \A l \in MetaLocs :
                                 (\A i \in 0 .. (n - 1) :
                                    l # kmsan_get_metadata(to + i, FALSE))
                                   => shadow'[l] = shadow[l]
                            /\ (origins /\ Attributed(from, n))
                                 => Attributed(to, n)'

\* C20: kmsan_copy_to_user(to, from, to_copy, left), ready and outside the
\* runtime: with to_copy = 0 or to_copy <= left nothing is checked or
\* changed; otherwise, for a user address `to`, exactly the first
\* to_copy - left bytes of `from` are checked and no metadata changes, and
\* for a kernel address `to` the metadata of those bytes, shadow and
\* origin, is propagated from `from` to `to` and no report is emitted.
C20_CopyToUser == [][CopyToUserStep(TRUE)]_vars

\* the branches of kmsan_copy_to_user and the shadow it propagates, the
\* origins left aside
CopyToUser_ShadowPropagated == [][CopyToUserStep(FALSE)]_vars

\* ------------------------------------- metadata pointers for accesses
AccessLens == {1, KMSAN_ORIGIN_SIZE, PAGE_SIZE, PAGE_SIZE + 1}

NextPtr ==
  \/ (nops = 0 /\ Initialize)
  \/ EnterRuntime
  \/ LeaveRuntime
  \/ (nops = 0 /\ PoisonMemory(LinearAddrs, PoisonLens, OneStack))
  \/ (nops = 1 /\ UnpoisonMemory(WinAddrs, EdgeLens))
  \/ (nops = 1 /\ MemmoveMetadata(WinAddrs, MoveSrcs, MoveLens, OneStack))
  \/ (nops = 1 /\ AllocPage(OneStack))
  \/ (nops = 1 /\ CopyPageMeta)
  \/ (nops = 1 /\ SlabFree(WinAddrs, OneStack))
  \/ (nops = 1 /\ KfreeLarge(OneStack))
  \/ (nops = 1 /\ HandleDma(DmaOffsets, DmaLens))
  \/ GetShadowOriginPtr(LinearAddrs, AccessLens)

SpecPtr == InitPages /\ [][NextPtr]_vars

\* the call returned both pointers into the dummy page of its kind
DummyReturned(store, ret1, ret2) ==
  LET dummy == IF store THEN dummy_store_page ELSE dummy_load_page
  IN  ret1 = dummy /\ ret2 = dummy

\* C18: kmsan_get_shadow_origin_ptr(address, size <= PAGE_SIZE,
\* store) returns both pointers into dummy_store_page for a store and into
\* dummy_load_page for a load whenever kmsan_ready is clear, the context is
\* in the runtime or the shadow of address resolves to none; the load dummy
\* page is never returned for a store and stays all-zero.
C18_DummyWhenUntracked ==
  [][/\ \A l \in DummyLoadLocs : shadow'[l] = 0
     /\ Called("kmsan_get_shadow_origin_ptr") =>
          \A a \in LinearAddrs, n \in 1 .. PAGE_SIZE, store \in BOOLEAN :
            (/\ call'[2] = a
             /\ call'[3] = n
             /\ call'[4] = B(store))
              => /\ (store => call'[5] # dummy_load_page
                              /\ call'[6] # dummy_load_page)
                 /\ (\/ ~kmsan_ready
                     \/ kmsan_in_runtime > 0
                     \/ kmsan_get_metadata(a, FALSE) = NULL)
                      => /\ ~bug'
                         /\ DummyReturned(store, call'[5], call'[6])]_vars

\* a store to an address without shadow, ready and outside the runtime, got
\* the store dummy page while a shadow page holds poison
C18_StoreDummy ==
  /\ call[1] = "kmsan_get_shadow_origin_ptr"
  /\ prev[1] = "kmsan_poison_memory"
  /\ kmsan_ready
  /\ ~bug
  /\ call[4] = 1
  /\ kmsan_get_metadata(call[2], FALSE) = NULL
  /\ call[5] = dummy_store_page
  /\ call[6] = dummy_store_page
  /\ \E l \in MetaLocs : shadow[l] # 0

\* in every state of the general specification the load dummy page is zero
DummyLoadZero == \A l \in DummyLoadLocs : shadow[l] = 0

\* --------------------------------------- hooks.c: ioremap and iounmap
\* alloc_pages(gfp_mask, 1): a block the page allocator has not handed out
alloc_pages(v) ==
  [v |-> [v EXCEPT !.count = @ + 1, !.allocated = @ \cup {v.count + 1}],
   page |-> v.count + 1]

\* __free_pages(page, 1)
free_pages(v, page) == [v EXCEPT !.allocated = @ \ {page}]

\* __vmap_pages_range_noflush() of one page at vmalloc page p: a page table
\* entry that is in use is left as it is
vmap_page(map, p, page) ==
  [q \in DOMAIN map |-> IF q = p /\ map[q] = NoPage THEN page ELSE map[q]]

\* __vunmap_range_noflush(from, to)
vunmap_range(map, from, to) ==
  [q \in DOMAIN map |-> IF q >= from /\ q < to THEN NoPage ELSE map[q]]

\* kmsan_vmalloc_to_page_or_null(): the page mapped at p, or NoPage
kmsan_vmalloc_to_page_or_null(map, p) ==
  IF p \in DOMAIN map THEN map[p] ELSE NoPage

\* for (i = 0; i < nr; i++, off += PAGE_SIZE) of kmsan_ioremap_page_range
RECURSIVE ioremap_loop(_, _, _, _)
ioremap_loop(v, i, nr, start) ==
  IF ~(i < nr) THEN v
  ELSE LET s == alloc_pages(v)
           o == alloc_pages(s.v)
       IN  ioremap_loop(
             [o.v EXCEPT !.shadow = vmap_page(@, start + i, s.page),
                         !.origin = vmap_page(@, start + i, o.page)],
             i + 1, nr, start)

\* start, end: pages of the vmalloc zone
kmsan_ioremap_page_range(m, v, start, end) ==
  IF ~kmsan_ready \/ in_runtime(m) THEN v
  ELSE ioremap_loop(v, 0, end - start, start)

\* for (i = 0; i < nr; i++, v_shadow += PAGE_SIZE, v_origin += PAGE_SIZE)
\* of kmsan_iounmap_page_range
RECURSIVE iounmap_loop(_, _, _, _, _)
iounmap_loop(v, i, nr, start, end) ==
  IF ~(i < nr) THEN v
  ELSE LET shadow_pg == kmsan_vmalloc_to_page_or_null(v.shadow, start + i)
           origin_pg == kmsan_vmalloc_to_page_or_null(v.origin, start + i)
           v1 == [v EXCEPT !.shadow = vunmap_range(@, start + i, end),
                           !.origin = vunmap_range(@, start + i, end)]
           v2 == IF shadow_pg # NoPage THEN free_pages(v1, shadow_pg) ELSE v1
           v3 == IF origin_pg # NoPage THEN free_pages(v2, origin_pg) ELSE v2
       IN  iounmap_loop(v3, i + 1, nr, start, end)

kmsan_iounmap_page_range(m, v, start, end) ==
  IF ~kmsan_ready \/ in_runtime(m) THEN v
  ELSE iounmap_loop(v, 0, end - start, start, end)

\* a call that changes the vmalloc zone only
DoVmap(v, c) ==
  /\ vmap' = v
  /\ UNCHANGED lookup
  /\ prev' = call
  /\ call' = c
  /\ nops' = nops + 1
  /\ UNCHANGED <<kmsan_ready, kmsan_in_runtime, page_shadow, page_origin,
                 shadow, origin, depot, reports, bug, oob, unguarded,
                 kmsan_skipped_origins>>

\* ioremap_page_range() maps a range no live mapping covers
IoremapPageRange ==
  /\ ~bug /\ nops < MaxIoOps
  /\ \E start \in VmPages, end \in 1 .. NumVmPages :
       /\ start < end
       /\ \A r \in vmap.ranges : end <= r[1] \/ r[2] <= start
       /\ DoVmap([kmsan_ioremap_page_range(Mach, vmap, start, end)
                    EXCEPT !.ranges = @ \cup {<<start, end>>}],
                 <<"kmsan_ioremap_page_range", start, end>>)

\* iounmap() unmaps a range that ioremap_page_range() mapped
IounmapPageRange ==
  /\ ~bug /\ nops < MaxIoOps
  /\ \E r \in vmap.ranges :
       DoVmap([kmsan_iounmap_page_range(Mach, vmap, r[1], r[2])
                 EXCEPT !.ranges = @ \ {r}],
              <<"kmsan_iounmap_page_range", r[1], r[2]>>)

EnterRuntimeIo ==
  /\ ~bug /\ nops < MaxIoOps /\ kmsan_in_runtime = 0
  /\ kmsan_in_runtime' = kmsan_enter_runtime(Mach).rt
  /\ UNCHANGED <<lookup, vmap, kmsan_ready, page_shadow, page_origin, shadow, origin,
                 depot, reports, bug, oob, unguarded, kmsan_skipped_origins,
                 call, prev, nops>>

NextIoremap ==
  \/ Initialize
  \/ EnterRuntimeIo
  \/ LeaveRuntime
  \/ IoremapPageRange
  \/ IounmapPageRange

SpecIoremap == Init /\ [][NextIoremap]_vars

\* ioremap gave every page of [start, end) a shadow and an origin page
MetaMapped(start, end) ==
  \A p \in start .. (end - 1) :
    vmap.shadow[p] # NoPage /\ vmap.origin[p] # NoPage

\* the pages ioremap allocated for [start, end)
MetaPagesOf(start, end) ==
  {vmap.shadow[p] : p \in start .. (end - 1)}
    \cup {vmap.origin[p] : p \in start .. (end - 1)}

\* C17: kmsan_iounmap_page_range(start, end), ready and outside the runtime,
\* over a range of two or more pages that kmsan_ioremap_page_range(start,
\* end) gave metadata: afterwards no shadow or origin page is mapped for
\* [start, end) and none of the pages ioremap allocated is still allocated.
C17_IounmapFreesAll ==
  [][\A start \in VmPages, end \in 1 .. NumVmPages :
       (/\ Called("kmsan_iounmap_page_range")
        /\ call' = <<"kmsan_iounmap_page_range", start, end>>
        /\ end - start >= 2
        /\ kmsan_ready
        /\ kmsan_in_runtime = 0
        /\ MetaMapped(start, end))
         => /\ \A p \in start .. (end - 1) :
                 vmap'.shadow[p] = NoPage /\ vmap'.origin[p] = NoPage
            /\ MetaPagesOf(start, end) \cap vmap'.allocated = {}]_vars

\* the same for a range of one page
SinglePage_IounmapFreesAll ==
  [][\A start \in VmPages :
       (/\ Called("kmsan_iounmap_page_range")
        /\ call' = <<"kmsan_iounmap_page_range", start, start + 1>>
        /\ kmsan_ready
        /\ kmsan_in_runtime = 0
        /\ MetaMapped(start, start + 1))
         => /\ vmap'.shadow[start] = NoPage /\ vmap'.origin[start] = NoPage
            /\ MetaPagesOf(start, start + 1) \cap vmap'.allocated = {}]_vars

\* the mappings of [start, end) are gone after iounmap, whatever its length
Iounmap_Unmaps ==
  [][\A start \in VmPages, end \in 1 .. NumVmPages :
       (/\ Called("kmsan_iounmap_page_range")
        /\ call' = <<"kmsan_iounmap_page_range", start, end>>
        /\ kmsan_ready
        /\ kmsan_in_runtime = 0)
         => \A p \in start .. (end - 1) :
              vmap'.shadow[p] = NoPage /\ vmap'.origin[p] = NoPage]_vars

\* ------------------------------------ metadata with arbitrary contents
\* instrumented code stores shadow bytes and origins of its own through the
\* pointers of kmsan_get_shadow_origin_ptr, so a tracked byte may hold any
\* shadow and a granule the handle of any saved stack, or none
ContentAddrs == KMSAN_ORIGIN_SIZE .. (PAGE_SIZE + 1)

ContentGranules == {a \in ContentAddrs : a % KMSAN_ORIGIN_SIZE = 0}

\* the depot after one capture of each stack, and the two handles
SavedDepot == [i \in 1 .. NumStacks |-> <<i>>]

SavedHandles == {i * ExtraBitsMod : i \in 1 .. 2}

\* every data page has metadata, in adjacent frames or not
ContentLayouts == {lay \in Layouts : \A q \in Pages : lay[q] # 0}

InitContentsIn(L) ==
  /\ kmsan_ready = TRUE
  /\ kmsan_in_runtime = 0
  /\ page_shadow \in L
  /\ page_origin = page_shadow
  /\ \E bits \in [ContentAddrs -> {0, 255}] :
       shadow = [l \in ShadowMem |->
                   IF \E a \in ContentAddrs : kmsan_get_metadata(a, FALSE) = l
                   THEN bits[CHOOSE a \in ContentAddrs :
                               kmsan_get_metadata(a, FALSE) = l]
                   ELSE 0]
  /\ \E hs \in [ContentGranules -> {0} \cup SavedHandles] :
       origin = [l \in OriginLocs |->
                   IF \E a \in ContentGranules : kmsan_get_metadata(a, TRUE) = l
                   THEN hs[CHOOSE a \in ContentGranules :
                             kmsan_get_metadata(a, TRUE) = l]
                   ELSE 0]
  /\ depot = SavedDepot
  /\ reports = <<>>
  /\ bug = FALSE
  /\ oob = FALSE
  /\ unguarded = FALSE
  /\ kmsan_skipped_origins = 0
  /\ call = <<"init">>
  /\ prev = <<"init">>
  /\ nops = 0
  /\ vmap = VmapInit
  /\ lookup = LookupInit

InitContents == InitContentsIn(ContentLayouts)

\* ------------------------------------------- kmsan_memmove_metadata
MoveDsts == 0 .. (PAGE_SIZE + 1)

MoveSources == KMSAN_ORIGIN_SIZE .. (PAGE_SIZE - 1)

MoveSizes == 0 .. (KMSAN_ORIGIN_SIZE + 1)

NextCopy == nops = 0 /\ MemmoveMetadata(MoveDsts, MoveSources, MoveSizes, OneStack)

SpecCopy == InitContents /\ [][NextCopy]_vars

MoveCall(dst, src, n) ==
  call'[2] = dst /\ call'[3] = src /\ call'[4] = n

\* C23: after kmsan_memmove_metadata(dst, src, n) with both ranges tracked,
\* shadow byte i of dst equals the shadow byte src+i had before the call for
\* every i < n, whether or not the ranges overlap, and every shadow byte
\* outside [dst, dst+n) is unchanged.
C23_ShadowMoved ==
  [][Called("kmsan_memmove_metadata") =>
       \A dst \in MoveDsts, src \in MoveSources, n \in MoveSizes :
         (MoveCall(dst, src, n) /\ n >= 1
          /\ Tracked(dst, n) /\ Tracked(src, n))
           => /\ ~bug'
              /\ \A i \in 0 .. (n - 1) : ShadowOf(dst + i)' = ShadowOf(src + i)
              /\ \A a \in LinearAddrs :
                   ~(a >= dst /\ a < dst + n) => ShadowOf(a)' = ShadowOf(a)]_vars

\* the same for ranges whose metadata pages are adjacent
Contiguous_ShadowMoved ==
  [][Called("kmsan_memmove_metadata") =>
       \A dst \in MoveDsts, src \in MoveSources, n \in MoveSizes :
         (MoveCall(dst, src, n) /\ n >= 1
          /\ Tracked(dst, n) /\ Contig(dst, n)
          /\ Tracked(src, n) /\ Contig(src, n))
           => /\ ~bug'
              /\ \A i \in 0 .. (n - 1) : ShadowOf(dst + i)' = ShadowOf(src + i)
              /\ \A a \in LinearAddrs :
                   ~(a >= dst /\ a < dst + n) => ShadowOf(a)' = ShadowOf(a)]_vars

\* the origin granules overlapping [x, x + n)
GranulesOf(x, n) ==
  {g \in LinearAddrs : /\ g % KMSAN_ORIGIN_SIZE = 0
                       /\ g + KMSAN_ORIGIN_SIZE > x
                       /\ g < x + n}

\* some shadow byte of the granule at g is nonzero
GranulePoisoned(g) ==
  \E j \in 0 .. (KMSAN_ORIGIN_SIZE - 1) : ShadowOf(g + j) # 0

\* no granule holds a handle over shadow that is all zero
WellAttributed ==
  \A g \in GranulesOf(0, LinearEnd) : OriginOf(g) # 0 => GranulePoisoned(g)

\* C21: after kmsan_memmove_metadata(dst, src, n) on tracked ranges, an
\* origin granule overlapping [dst, dst+n) holds a nonzero handle only if
\* some shadow byte of that granule is nonzero after the copy; a granule
\* whose shadow is all zero after the move holds 0.  Checked from states
\* in which no granule holds a handle over clean shadow.
C21_HandleOnlyOverPoison ==
  [][Called("kmsan_memmove_metadata") =>
       \A dst \in MoveDsts, src \in MoveSources, n \in MoveSizes :
         (MoveCall(dst, src, n) /\ n >= 1 /\ WellAttributed
          /\ Tracked(dst, n) /\ Contig(dst, n)
          /\ Tracked(src, n) /\ Contig(src, n))
           => \A g \in GranulesOf(dst, n) :
                OriginOf(g)' # 0 => GranulePoisoned(g)']_vars

\* the word the loop of kmsan_memmove_metadata(dst, src, n) tests for source
\* slot i, when the shadow copy did not touch the source granules
DecidingWord(src, n, i) ==
  masked_shadow(Mach,
                ALIGN_DOWN(kmsan_get_metadata(src, FALSE), KMSAN_ORIGIN_SIZE),
                src, n, slots_of(src, n), i)

\* the shadow bytes do not reach a granule of [src, src + n)
ApartFrom(dst, src, n) ==
  \/ dst + n <= ALIGN_DOWN(src, KMSAN_ORIGIN_SIZE)
  \/ dst >= ALIGN(src + n, KMSAN_ORIGIN_SIZE)

\* C22: the shadow word kmsan_memmove_metadata tests for a source granule
\* counts exactly the poisoned bytes of the granule that lie in
\* [src, src+n): in the first granule the bytes at offsets >= src % 4, in
\* the last the bytes at offsets < (src+n) % 4 when src+n is unaligned.
C22_MaskKeepsRange ==
  [][Called("kmsan_memmove_metadata") =>
       \A dst \in MoveDsts, src \in MoveSources, n \in MoveSizes :
         (MoveCall(dst, src, n) /\ n >= 1 /\ ApartFrom(dst, src, n)
          /\ Tracked(dst, n) /\ Contig(dst, n)
          /\ Tracked(src, n) /\ Contig(src, n))
           => \A i \in 0 .. (slots_of(src, n) - 1) :
                \A j \in 0 .. (KMSAN_ORIGIN_SIZE - 1) :
                  LET a == ALIGN_DOWN(src, KMSAN_ORIGIN_SIZE)
                             + KMSAN_ORIGIN_SIZE * i + j
                  IN  (DecidingWord(src, n, i)[j + 1] # 0)
                        <=> (a >= src /\ a < src + n /\ ShadowOf(a) # 0)]_vars

\* handle x names a chain record of depot d whose previous origin is h
ChainedFrom(d, x, h) ==
  /\ x # 0
  /\ (x \div ExtraBitsMod) \in 1 .. Len(d)
  /\ LET e == d[x \div ExtraBitsMod]
     IN  Len(e) = 3 /\ e[1] = KMSAN_CHAIN_MAGIC_ORIGIN /\ e[3] = h

\* C24: after kmsan_memmove_metadata(dst, src, n) on tracked ranges, the
\* handle in the i-th destination granule is 0, the handle h the i-th source
\* granule held before the call, or a chain record made from h.
C24_HandleOfSameGranule ==
  [][Called("kmsan_memmove_metadata") =>
       \A dst \in MoveDsts, src \in MoveSources, n \in MoveSizes :
         (MoveCall(dst, src, n) /\ n >= 1
          /\ Tracked(dst, n) /\ Contig(dst, n)
          /\ Tracked(src, n) /\ Contig(src, n))
           => \A i \in 0 .. (Min(slots_of(src, n), slots_of(dst, n)) - 1) :
                \A h \in {0} \cup SavedHandles :
                  h = OriginOf(src + KMSAN_ORIGIN_SIZE * i)
                  => \/ OriginOf(dst + KMSAN_ORIGIN_SIZE * i)' \in {0, h}
                     \/ ChainedFrom(depot',
                                    OriginOf(dst + KMSAN_ORIGIN_SIZE * i)',
                                    h)]_vars

\* C25: kmsan_memmove_metadata(dst, src, 0) with both addresses tracked
\* changes no shadow byte and no origin granule and fails no assertion,
\* whatever the alignment of the two addresses.
C25_MoveNothing ==
  [][Called("kmsan_memmove_metadata") =>
       \A dst \in MoveDsts, src \in MoveSources :
         (MoveCall(dst, src, 0) /\ Tracked(dst, 1) /\ Tracked(src, 1))
           => ~bug' /\ ~oob' /\ shadow' = shadow /\ origin' = origin]_vars

\* C26: for kmsan_memmove_metadata(dst, src, n) with n >= 1 the slot counts
\* of the two ranges are the numbers of granules the ranges overlap, both
\* are at least 1 and they differ by at most one, so on tracked ranges none
\* of the slot-count assertions fires.
C26_SlotCounts ==
  (call[1] = "kmsan_memmove_metadata" /\ call[4] >= 1)
  => LET src_slots == slots_of(call[3], call[4])
         dst_slots == slots_of(call[2], call[4])
     IN  /\ src_slots = Cardinality(GranulesOf(call[3], call[4]))
         /\ dst_slots = Cardinality(GranulesOf(call[2], call[4]))
         /\ src_slots >= 1
         /\ dst_slots >= 1
         /\ src_slots - dst_slots \in {0 - 1, 0, 1}
         /\ ( /\ Tracked(call[2], call[4]) /\ Contig(call[2], call[4])
              /\ Tracked(call[3], call[4]) /\ Contig(call[3], call[4]) )
            => ~bug

\* a move whose destination overlaps one granule more than its source
C26_OneSlotApart ==
  /\ call[1] = "kmsan_memmove_metadata"
  /\ call[4] = KMSAN_ORIGIN_SIZE
  /\ slots_of(call[3], call[4]) = 1
  /\ slots_of(call[2], call[4]) = 2
  /\ Tracked(call[2], call[4])
  /\ ~bug

\* ------------------------------ checks and fills of arbitrary contents
ScanAddrs == 0 .. (PAGE_SIZE + KMSAN_ORIGIN_SIZE - 1)

FillAddrs == 2 .. (PAGE_SIZE + 1)

FillLens == 0 .. (KMSAN_ORIGIN_SIZE + 1)

NextContents ==
  \/ (nops = 0 /\ CheckMemory(ScanAddrs, Lens))
  \/ (nops = 0 /\ PoisonMemory(FillAddrs, FillLens, OneStack))
  \/ (nops = 0 /\ UnpoisonMemory(FillAddrs, FillLens))

SpecContents == InitContentsIn(TrackedLayouts) /\ [][NextContents]_vars

\* byte a is tracked, poisoned and attributed to handle h
PoisonedBy(a, h) ==
  /\ kmsan_get_metadata(a, FALSE) # NULL
  /\ ShadowOf(a) # 0
  /\ OriginOf(a) = h

\* C27: the reports of one kmsan_check_memory(addr, size) come in strictly
\* increasing offset order and are pairwise disjoint; each has
\* 0 <= first <= last <= size - 1 and a nonzero handle; every byte of a
\* report is tracked, has nonzero shadow and lies in a granule holding the
\* reported handle; and no report can be extended by a byte on either side.
C27_ReportsAreRuns ==
  call[1] = "kmsan_check_memory"
  => \A i \in 1 .. Len(reports) :
       LET r == reports[i]
       IN  /\ 0 <= r.off_first
           /\ r.off_first <= r.off_last
           /\ r.off_last <= call[3] - 1
           /\ r.origin # 0
           /\ \A k \in r.off_first .. r.off_last :
                PoisonedBy(call[2] + k, r.origin)
           /\ i < Len(reports) => r.off_last < reports[i + 1].off_first
           /\ r.off_first > 0
                => ~PoisonedBy(call[2] + r.off_first - 1, r.origin)
           /\ r.off_last < call[3] - 1
                => ~PoisonedBy(call[2] + r.off_last + 1, r.origin)

\* two adjacent runs that differ in origin only
C27_SplitByOrigin ==
  /\ call[1] = "kmsan_check_memory"
  /\ Len(reports) = 2
  /\ reports[1].off_last + 1 = reports[2].off_first
  /\ reports[1].origin # reports[2].origin
  /\ reports[1].off_first < reports[1].off_last

\* the reports of the call that cover offset k
Covering(k) ==
  {i \in 1 .. Len(reports) :
     reports[i].off_first <= k /\ k <= reports[i].off_last}

\* C28: after kmsan_check_memory(addr, size) every tracked byte of the range
\* with nonzero shadow lies in exactly one report, whatever handle its
\* granule holds; there is no report only if no tracked byte is poisoned.
C28_EveryPoisonedByteReported ==
  (call[1] = "kmsan_check_memory" /\ ~bug)
  => \A k \in 0 .. (call[3] - 1) :
       ( /\ kmsan_get_metadata(call[2] + k, FALSE) # NULL
         /\ ShadowOf(call[2] + k) # 0 )
       => Cardinality(Covering(k)) = 1

\* the same for bytes whose granule holds a handle
Attributed_EveryPoisonedByteReported ==
  (call[1] = "kmsan_check_memory" /\ ~bug)
  => \A k \in 0 .. (call[3] - 1) :
       ( /\ kmsan_get_metadata(call[2] + k, FALSE) # NULL
         /\ ShadowOf(call[2] + k) # 0
         /\ OriginOf(call[2] + k) # 0 )
       => Cardinality(Covering(k)) = 1

\* the metadata after a fill of [a, a + n): the shadow bytes of the range
\* hold b, the origin granules overlapping it hold h, the rest is unchanged
FilledExactly(a, n, b, h) ==
  LET SL == {kmsan_get_metadata(x, FALSE) : x \in a .. (a + n - 1)}
      OL == {kmsan_get_metadata(g, TRUE) : g \in GranulesOf(a, n)}
  IN  /\ ~bug'
      /\ ~oob'
      /\ shadow' = [l \in ShadowMem |-> IF l \in SL THEN b ELSE shadow[l]]
      /\ origin' = [l \in OriginLocs |-> IF l \in OL THEN h ELSE origin[l]]

FillCall(a, n) == call'[2] = a /\ call'[3] = n

\* C29: on a tracked range of size >= 1, at any alignment,
\* kmsan_internal_set_shadow_origin sets exactly the shadow bytes of
\* [addr, addr+size) to b and exactly the origin granules overlapping the
\* range to the origin, and changes nothing else; kmsan_poison_memory calls
\* it with b = 0xff and the captured handle, kmsan_unpoison_memory with 0, 0.
C29_FillsExactly ==
  [][/\ Called("kmsan_poison_memory") =>
          \A a \in FillAddrs, n \in FillLens :
            (FillCall(a, n) /\ n >= 1 /\ Tracked(a, n))
              => FilledExactly(a, n, 255, NumStacks * ExtraBitsMod)
     /\ Called("kmsan_unpoison_memory") =>
          \A a \in FillAddrs, n \in FillLens :
            (FillCall(a, n) /\ n >= 1 /\ Tracked(a, n))
              => FilledExactly(a, n, 0, 0)]_vars

\* the same for ranges whose metadata pages are adjacent
Contiguous_FillsExactly ==
  [][/\ Called("kmsan_poison_memory") =>
          \A a \in FillAddrs, n \in FillLens :
            (FillCall(a, n) /\ n >= 1 /\ Tracked(a, n) /\ Contig(a, n))
              => FilledExactly(a, n, 255, NumStacks * ExtraBitsMod)
     /\ Called("kmsan_unpoison_memory") =>
          \A a \in FillAddrs, n \in FillLens :
            (FillCall(a, n) /\ n >= 1 /\ Tracked(a, n) /\ Contig(a, n))
              => FilledExactly(a, n, 0, 0)]_vars

\* C30: kmsan_internal_set_shadow_origin with size 0, reached through
\* kmsan_poison_memory or kmsan_unpoison_memory, changes no shadow byte and
\* no origin granule, whatever the alignment of the address.
C30_FillNothing ==
  [][(Called("kmsan_poison_memory") \/ Called("kmsan_unpoison_memory")) =>
       \A a \in FillAddrs :
         (FillCall(a, 0) /\ Tracked(a, 1))
           => ~bug' /\ shadow' = shadow /\ origin' = origin]_vars

\* ------------------------------------------ chains of any handle, or none
\* kmsan_internal_chain_origin() on no handle
ChainNull ==
  /\ nops <= MaxChain
  /\ \E stk \in Stacks :
       LET s == kmsan_internal_chain_origin(Mach, stk, 0)
       IN  Do(s.m, <<"kmsan_internal_chain_origin", 0, stk, s.h, Len(depot)>>)

NextOrigins == SaveStack \/ ChainOrigin \/ ChainNull

SpecOrigins == Init /\ [][NextOrigins]_vars

UafOf(handle) == kmsan_uaf_from_eb(stack_depot_get_extra_bits(handle))

\* the handles the depot's chain records hold
RecordedHandles ==
  UNION {{depot[i][2], depot[i][3]} :
           i \in {j \in 1 .. Len(depot) : Len(depot[j]) = 3}}

VMALLOC_START == 4 * PAGE_SIZE
VMALLOC_END == VMALLOC_START + PAGE_SIZE
MODULES_VADDR == VMALLOC_END
MODULES_END == MODULES_VADDR + PAGE_SIZE
KMSAN_VMALLOC_SHADOW_START == 8 * PAGE_SIZE
KMSAN_VMALLOC_ORIGIN_START == 10 * PAGE_SIZE
KMSAN_MODULES_SHADOW_START == 12 * PAGE_SIZE
KMSAN_MODULES_ORIGIN_START == 14 * PAGE_SIZE

\* the entry-area map: one read-only page, then one area for each CPU
CPU_ENTRY_AREA_BASE == 16 * PAGE_SIZE
CPU_ENTRY_AREA_SIZE == PAGE_SIZE + KMSAN_ORIGIN_SIZE
CPU_ENTRY_AREA_PER_CPU == CPU_ENTRY_AREA_BASE + PAGE_SIZE
CPU_ENTRY_AREA_MAP_SIZE ==
  CPU_ENTRY_AREA_PER_CPU + NumCpus * CPU_ENTRY_AREA_SIZE - CPU_ENTRY_AREA_BASE

get_cpu_entry_area(cpu) == CPU_ENTRY_AREA_PER_CPU + cpu * CPU_ENTRY_AREA_SIZE

\* &per_cpu(cpu_entry_area_shadow[off], cpu), &per_cpu(cpu_entry_area_origin[off], cpu)
PerCpuBase == 32 * PAGE_SIZE

PerCpuStride == 4 * PAGE_SIZE

cpu_entry_area_shadow(cpu, off) == PerCpuBase + cpu * PerCpuStride + off

cpu_entry_area_origin(cpu, off) ==
  PerCpuBase + cpu * PerCpuStride + 2 * PAGE_SIZE + off

kmsan_internal_is_vmalloc_addr(addr) ==
  addr >= VMALLOC_START /\ addr < VMALLOC_END

kmsan_internal_is_module_addr(vaddr) ==
  vaddr >= MODULES_VADDR /\ vaddr < MODULES_END

vmalloc_meta(addr, is_origin) ==
  IF kmsan_internal_is_vmalloc_addr(addr)
  THEN (addr - VMALLOC_START)
         + (IF is_origin THEN KMSAN_VMALLOC_ORIGIN_START
                         ELSE KMSAN_VMALLOC_SHADOW_START)
  ELSE IF kmsan_internal_is_module_addr(addr)
  THEN (addr - MODULES_VADDR)
         + (IF is_origin THEN KMSAN_MODULES_ORIGIN_START
                         ELSE KMSAN_MODULES_SHADOW_START)
  ELSE 0

\* get_cea_meta_or_null without the test of the offset
cea_meta_any_offset(cpu, addr, is_origin) ==
  IF addr < CPU_ENTRY_AREA_BASE
     \/ addr >= CPU_ENTRY_AREA_BASE + CPU_ENTRY_AREA_MAP_SIZE
  THEN NULL
  ELSE LET off == addr - get_cpu_entry_area(cpu)
       IN  IF is_origin THEN cpu_entry_area_origin(cpu, off)
           ELSE cpu_entry_area_shadow(cpu, off)

\* cpu is what smp_processor_id() returned
get_cea_meta_or_null(cpu, addr, is_origin) ==
  IF addr < CPU_ENTRY_AREA_BASE
     \/ addr >= CPU_ENTRY_AREA_BASE + CPU_ENTRY_AREA_MAP_SIZE
  THEN NULL
  ELSE LET off == addr - get_cpu_entry_area(cpu)
       IN  IF off < 0 \/ off >= CPU_ENTRY_AREA_SIZE THEN NULL
           ELSE IF is_origin THEN cpu_entry_area_origin(cpu, off)
           ELSE cpu_entry_area_shadow(cpu, off)

\* kmsan_get_metadata on a CPU, all zones; the linear zone is
\* kmsan_get_metadata above
kmsan_get_metadata_cpu(cpu, address, is_origin) ==
  LET addr == IF is_origin /\ ~IS_ALIGNED(address, KMSAN_ORIGIN_SIZE)
              THEN address - (address % KMSAN_ORIGIN_SIZE)
              ELSE address
  IN  IF kmsan_internal_is_vmalloc_addr(addr)
         \/ kmsan_internal_is_module_addr(addr)
      THEN vmalloc_meta(addr, is_origin)
      ELSE LET ret == get_cea_meta_or_null(cpu, addr, is_origin)
           IN  IF ret # NULL THEN ret
               ELSE kmsan_get_metadata(addr, is_origin)

\* the addresses the CPUs resolve: the entry-area map and two bytes on
\* either side of it
CeaAddrs ==
  (CPU_ENTRY_AREA_BASE - 2)
    .. (CPU_ENTRY_AREA_BASE + CPU_ENTRY_AREA_MAP_SIZE + 1)

\* CPU c calls kmsan_get_metadata and reads smp_processor_id()
LookupEnter(c) ==
  /\ lookup[c].pc # "entered"
  /\ \E a \in CeaAddrs, is_origin \in BOOLEAN :
       lookup' = [lookup EXCEPT ![c] = [pc |-> "entered", cpu |-> c,
                                        address |-> a,
                                        is_origin |-> is_origin]]
  /\ UNCHANGED <<kmsan_ready, kmsan_in_runtime, page_shadow, page_origin,
                 shadow, origin, depot, reports, bug, oob, unguarded,
                 kmsan_skipped_origins, call, prev, nops, vmap>>

\* the rest of the call, on the CPU it started on
LookupReturn(c) ==
  /\ lookup[c].pc = "entered"
  /\ lookup' = [lookup EXCEPT ![c] =
                  [pc |-> "returned", cpu |-> @.cpu, address |-> @.address,
                   is_origin |-> @.is_origin,
                   ret |-> kmsan_get_metadata_cpu(@.cpu, @.address,
                                                  @.is_origin)]]
  /\ UNCHANGED <<kmsan_ready, kmsan_in_runtime, page_shadow, page_origin,
                 shadow, origin, depot, reports, bug, oob, unguarded,
                 kmsan_skipped_origins, call, prev, nops, vmap>>

NextCea == \E c \in Cpus : LookupEnter(c) \/ LookupReturn(c)

SpecCea == Init /\ [][NextCea]_vars

\* the locations of a CPU's two arrays
OwnArrays(c) ==
  {cpu_entry_area_shadow(c, off) : off \in 0 .. (CPU_ENTRY_AREA_SIZE - 1)}
    \cup {cpu_entry_area_origin(c, off) : off \in 0 .. (CPU_ENTRY_AREA_SIZE - 1)}

InCeaMap(a) ==
  a >= CPU_ENTRY_AREA_BASE /\ a < CPU_ENTRY_AREA_BASE + CPU_ENTRY_AREA_MAP_SIZE

\* C35: while CPUs resolve addresses concurrently, a lookup of an address of
\* the entry-area map returns none or the location, in the calling CPU's own
\* shadow (origin) array, at offset address - base of that CPU's entry area,
\* with 0 <= offset < CPU_ENTRY_AREA_SIZE; it is never a location of another
\* CPU's array, also when the address lies in another CPU's entry area.
C35_OwnScratchOnly ==
  \A c \in Cpus :
    (lookup[c].pc = "returned" /\ InCeaMap(lookup[c].address))
    => LET l == lookup[c]
           a == IF l.is_origin THEN ALIGN_DOWN(l.address, KMSAN_ORIGIN_SIZE)
                ELSE l.address
           off == a - get_cpu_entry_area(c)
       IN  /\ \/ l.ret = NULL
              \/ /\ 0 <= off /\ off < CPU_ENTRY_AREA_SIZE
                 /\ l.ret = IF l.is_origin THEN cpu_entry_area_origin(c, off)
                            ELSE cpu_entry_area_shadow(c, off)
           /\ (0 <= off /\ off < CPU_ENTRY_AREA_SIZE) => l.ret # NULL
           /\ \A d \in Cpus \ {c} : l.ret \notin OwnArrays(d)

\* two CPUs have resolved the same address of CPU 1's entry area
C35_SameAddressTwoCpus ==
  /\ lookup[0].pc = "returned"
  /\ lookup[1].pc = "returned"
  /\ lookup[0].address = lookup[1].address
  /\ lookup[0].is_origin = lookup[1].is_origin
  /\ lookup[1].ret \in OwnArrays(1)
  /\ lookup[0].ret = NULL

\* ------------------------------------- shadow and origin of one address
\* the addresses resolved: each zone and two bytes on either side of it
ZoneAddrs ==
  ((0 - 2) .. (LinearEnd + 1))
    \cup ((VMALLOC_START - 2) .. (MODULES_END + 1))
    \cup CeaAddrs

\* kmsan_get_metadata(address, ...) for both kinds, on CPU c
GetMetadataCpu ==
  /\ Running
  /\ \E c \in Cpus, a \in ZoneAddrs :
       Do(Mach, <<"kmsan_get_metadata_cpu", c, a,
                  kmsan_get_metadata_cpu(c, a, FALSE),
                  kmsan_get_metadata_cpu(c, a, TRUE)>>)

NextLookup ==
  \/ (nops = 0 /\ GetMetadataCpu)
  \/ (nops = 0 /\ CheckMemory(ScanAddrs, Lens))
  \/ (nops = 0 /\ PoisonMemory(FillAddrs, FillLens, OneStack))
  \/ (nops = 0 /\ UnpoisonMemory(FillAddrs, FillLens))
  \/ (nops = 0 /\ MemmoveMetadata(WinAddrs, MoveSources, MoveSizes, OneStack))

SpecLookup == InitContentsIn(Layouts) /\ [][NextLookup]_vars

\* where the shadow and the origin of the unit holding address a start:
\* the page's metadata pages, the zone's metadata ranges, the CPU's arrays
MetaBase(c, a, is_origin) ==
  IF kmsan_internal_is_vmalloc_addr(a)
  THEN (IF is_origin THEN KMSAN_VMALLOC_ORIGIN_START
        ELSE KMSAN_VMALLOC_SHADOW_START) - VMALLOC_START
  ELSE IF kmsan_internal_is_module_addr(a)
  THEN (IF is_origin THEN KMSAN_MODULES_ORIGIN_START
        ELSE KMSAN_MODULES_SHADOW_START) - MODULES_VADDR
  ELSE IF InCeaMap(a)
  THEN (IF is_origin THEN cpu_entry_area_origin(c, 0)
        ELSE cpu_entry_area_shadow(c, 0)) - get_cpu_entry_area(c)
  ELSE page_address(IF is_origin THEN page_origin[a \div PAGE_SIZE]
                    ELSE page_shadow[a \div PAGE_SIZE])
         - ALIGN_DOWN(a, PAGE_SIZE)

\* the assertions of the last call other than "the origin is not NULL"
OtherAssertion ==
  \/ /\ call[1] \in {"kmsan_poison_memory", "kmsan_unpoison_memory"}
     /\ ~kmsan_metadata_is_contiguous(call[2], call[3])
  \/ /\ call[1] = "kmsan_check_memory"
     /\ ~kmsan_metadata_is_contiguous(call[2], call[3])
  \/ /\ call[1] = "kmsan_memmove_metadata"
     /\ \/ ~kmsan_metadata_is_contiguous(call[2], call[4])
        \/ ~kmsan_metadata_is_contiguous(call[3], call[4])
        \/ slots_of(call[2], call[4]) = 0
        \/ slots_of(call[3], call[4]) = 0

\* C32: for every address kmsan_get_metadata returns NULL for the shadow if
\* and only if it returns NULL for the origin, and the origin location is
\* the shadow location's counterpart rounded down to the granule; so a
\* fatal assertion reached in kmsan_internal_set_shadow_origin,
\* kmsan_memmove_metadata or kmsan_internal_check_memory is never the one
\* that the origin is not NULL.
C32_OriginWhereShadow ==
  /\ call[1] = "kmsan_get_metadata_cpu"
       => LET c == call[2]
              a == call[3]
          IN  /\ call[4] = NULL <=> call[5] = NULL
              /\ call[4] # NULL
                   => call[5] - MetaBase(c, a, TRUE)
                        = ALIGN_DOWN(call[4] - MetaBase(c, a, FALSE),
                                     KMSAN_ORIGIN_SIZE)
  /\ bug => OtherAssertion

\* an unaligned address of a tracked page, resolved for both kinds
C32_UnalignedResolved ==
  /\ call[1] = "kmsan_get_metadata_cpu"
  /\ call[3] \in LinearAddrs
  /\ call[3] % KMSAN_ORIGIN_SIZE = KMSAN_ORIGIN_SIZE - 1
  /\ call[4] # NULL
  /\ call[5] = ALIGN_DOWN(call[4], KMSAN_ORIGIN_SIZE)

\* ------------------------------------------- the re-entrancy counter
\* the struct page of metadata frame f, as the page tables of the vmalloc
\* metadata zone hold it
frame_page(f) == 0 - (f + 1)

\* kmsan_vmap_pages_range_noflush(start, start + PAGE_SIZE, prot, &page):
\* alloc_ok is whether both kcalloc() succeed, mapped is what
\* __vmap_pages_range_noflush() returns for the shadow and the origin range
kmsan_vmap_pages_range_noflush(m, v, start, page, alloc_ok, mapped) ==
  LET shadow_start == vmalloc_meta(start, FALSE)
      p == (start - VMALLOC_START) \div PAGE_SIZE
      s_page == frame_page(page_shadow[page])
      o_page == frame_page(page_origin[page])
      m1 == kmsan_enter_runtime(m)
      v1 == [v EXCEPT !.shadow = vmap_page(@, p, s_page)]
      v2 == [v1 EXCEPT !.origin = vmap_page(@, p, o_page)]
  IN  IF ~kmsan_ready THEN [m |-> m, v |-> v]
      ELSE IF shadow_start = 0 THEN [m |-> m, v |-> v]
      ELSE IF ~alloc_ok THEN [m |-> m, v |-> v]
      ELSE IF mapped[1] # 0 THEN [m |-> BUG(m1), v |-> v]
      ELSE IF mapped[2] # 0 THEN [m |-> BUG(m1), v |-> v1]
      ELSE [m |-> kmsan_leave_runtime(m1), v |-> v2]

VmapPagesRange ==
  /\ ~bug /\ nops < MaxOps
  /\ \E start \in {0, VMALLOC_START}, page \in Pages, alloc_ok \in BOOLEAN,
        mapped_s \in {0, 1}, mapped_o \in {0, 1} :
       LET r == kmsan_vmap_pages_range_noflush(Mach, vmap, start, page,
                                               alloc_ok, <<mapped_s, mapped_o>>)
       IN  /\ vmap' = r.v
           /\ kmsan_in_runtime' = r.m.rt
           /\ bug' = r.m.bug
           /\ prev' = call
           /\ call' = <<"kmsan_vmap_pages_range_noflush", start, page,
                        B(alloc_ok), mapped_s, mapped_o>>
           /\ nops' = nops + 1
           /\ UNCHANGED <<lookup, kmsan_ready, page_shadow, page_origin,
                          shadow, origin, depot, reports, oob, unguarded,
                          kmsan_skipped_origins>>

\* every entry point, the vmalloc hook among them
NextGuard == Next \/ VmapPagesRange

SpecGuard == Init /\ [][NextGuard]_vars

\* C33: a hook that returns leaves the calling context's re-entrancy counter
\* at the value it had on entry, whichever return path it takes, and every
\* report of kmsan_internal_check_memory() is emitted while the counter is
\* greater than 0.
C33_RuntimeBalanced ==
  [][(nops' # nops /\ ~bug') =>
       /\ kmsan_in_runtime' = kmsan_in_runtime
       /\ \A i \in 1 .. Len(reports') : reports'[i].rt > 0]_vars

\* a check called outside the runtime has reported poison from inside it and
\* has returned with the counter back at 0
C33_ReportedInsideRuntime ==
  /\ call[1] = "kmsan_check_memory"
  /\ ~bug
  /\ kmsan_in_runtime = 0
  /\ Len(reports) > 0
  /\ reports[Len(reports)].rt = 1

\* ------------------------------------------- the chunks of a DMA buffer
\* the (addr, to_go) pairs that the loop of kmsan_handle_dma hands to
\* kmsan_handle_dma_page, in order
RECURSIVE dma_chunks(_, _)
dma_chunks(addr, size) ==
  IF ~(size > 0) THEN <<>>
  ELSE LET page_offset == addr % PAGE_SIZE
           to_go == Min(PAGE_SIZE - page_offset, size)
       IN  <<[addr |-> addr, to_go |-> to_go]>>
             \o dma_chunks(addr + to_go, size - to_go)

\* kmsan_handle_dma_page on the chunks ch[i], ch[i+1], ...
RECURSIVE handle_dma_chunks(_, _, _, _)
handle_dma_chunks(m, ch, i, dir) ==
  IF i > Len(ch) THEN m
  ELSE handle_dma_chunks(kmsan_handle_dma_page(m, ch[i].addr, ch[i].to_go, dir),
                         ch, i + 1, dir)

DmaRangeLens == 0 .. (PAGE_SIZE + KMSAN_ORIGIN_SIZE - 1)

\* a buffer of up to three pages that ends within the modelled addresses
HandleDmaRange ==
  /\ Running
  /\ \E page \in Pages, offset \in {0, PAGE_SIZE - 2}, size \in DmaRangeLens,
        dir \in DmaDirs :
       /\ data_address(page) + offset + size <= LinearEnd + PAGE_SIZE
       /\ Do(kmsan_handle_dma(Mach, page, offset, size, dir),
             <<"kmsan_handle_dma", page, offset, size, dir>>)

NextDmaRange ==
  \/ (nops = 0 /\ PoisonMemory(DmaOffsets \cup {PAGE_SIZE}, DmaLens \ {0},
                               OneStack))
  \/ EnterRuntime
  \/ LeaveRuntime
  \/ HandleDmaRange

SpecDmaRange == InitBooted(Layouts) /\ [][NextDmaRange]_vars

RECURSIVE SumToGo(_, _)
SumToGo(ch, i) == IF i > Len(ch) THEN 0 ELSE ch[i].to_go + SumToGo(ch, i + 1)

\* the chunks start at addr, each begins where the one before it ended
Consecutive(ch, addr) ==
  \A i \in 1 .. Len(ch) :
    ch[i].addr = (IF i = 1 THEN addr ELSE ch[i - 1].addr + ch[i - 1].to_go)

WithinOnePage(c) ==
  /\ c.to_go > 0
  /\ ALIGN_DOWN(c.addr, PAGE_SIZE) = ALIGN_DOWN(c.addr + c.to_go - 1, PAGE_SIZE)

\* C34: kmsan_handle_dma(page, offset, size, dir) ends for every size, having
\* processed [addr, addr+size) as consecutive chunks whose lengths sum to size
\* and none of which crosses a page boundary, and it stops at no fatal
\* assertion, whatever metadata the pages of the buffer have.
C34_DmaChunks ==
  [][Called("kmsan_handle_dma") =>
       LET addr == data_address(call'[2]) + call'[3]
           size == call'[4]
           ch == dma_chunks(addr, size)
           m == handle_dma_chunks(Mach, ch, 1, call'[5])
       IN  /\ ~bug'
           /\ Consecutive(ch, addr)
           /\ SumToGo(ch, 1) = size
           /\ \A i \in 1 .. Len(ch) : WithinOnePage(ch[i])
           /\ shadow' = m.sh
           /\ origin' = m.org
           /\ reports' = m.reps]_vars

\* a bidirectional transfer of three chunks, over pages whose metadata would
\* fail the contiguity test as one range, has reported poison and returned
C34_ThreeChunks ==
  /\ call[1] = "kmsan_handle_dma"
  /\ call[5] = "DMA_BIDIRECTIONAL"
  /\ Len(dma_chunks(data_address(call[2]) + call[3], call[4])) = 3
  /\ ~kmsan_metadata_is_contiguous(data_address(call[2]) + call[3], call[4])
  /\ Len(reports) > 0
  /\ ~bug

====
